---- MODULE Spec2Model ----
(***************************************************************************)
(* Credential and token-lifecycle authority of the auth module:            *)
(* TokenService (JWT mint/verify), AuthService (password and federated     *)
(* registration, login, sessions, password reset, gateway-token exchange)  *)
(* over the relational store, the gateway's connect-time authorisation,    *)
(* AuthRateLimiter over its cache, and the browser's axios instance with   *)
(* its token-refresh interceptor.                                          *)
(*                                                                         *)
(* Time is in whole seconds.  Every handler is one atomic action; where    *)
(* requests meet, the handler is also given statement by statement (the    *)
(* rate-limit checks, the token consumers, the refresh, the two            *)
(* registrations inside their transactions).  The                          *)
(* record `last` holds the call just made, what it returned, and, where a  *)
(* property reads them, the statements it ran and the audit_log rows it    *)
(* wrote (audit_log is append-only and no handler reads it).               *)
(* Columns no property reads (names, slugs, client metadata, activity      *)
(* stamps, login counters) are left out of the rows.                       *)
(***************************************************************************)
EXTENDS Integers, Sequences, FiniteSets, TLC

\* ------------------------------------------------------------------ bounds
MaxUsers == 2
MaxSessions == 2
MaxResetTokens == 1
MaxGatewayTokens == 2
MaxRandom == 2
MaxTicks == 1
MaxLinks == 2
MaxClients == 2
MaxChecks == 6
MaxKeys == 2
MaxRequests == 2

\* ------------------------------------------------------- program constants
\* token-service.ts: accessTokenTTL = 15 * 60, refreshTokenTTL = 30 * 24 * 60 * 60
accessTokenTTL == 15 * 60
refreshTokenTTL == 30 * 24 * 60 * 60
\* auth-service.ts: gateway tokens live 60 * 60 * 1000 ms
gatewayTokenTTL == 60 * 60
\* auth-service.ts: INTERVAL '1 hour' / '24 hours'
resetTokenTTL == 60 * 60
verificationTokenTTL == 24 * 60 * 60
\* crypto.randomBytes(32).toString("hex")
HexLen == 64
MinPasswordLen == 8

ACCESS_TOKEN_SECRET == "access-secret"
REFRESH_TOKEN_SECRET == "refresh-secret"

\* A nullable column is a set with at most one element.
NULL == {}
Some(x) == {x}

\* ------------------------------------------------------------------ inputs
\* An email address: its letters once lower-cased, whether it was typed with
\* capitals, and whether it has the shape local@domain.tld.
Email(name, caps, shaped) == [name |-> name, caps |-> caps, shaped |-> shaped]
Emails ==
    { Email("a@x.io", FALSE, TRUE), Email("a@x.io", TRUE, TRUE),
      Email("b@x.io", FALSE, TRUE), Email("nobody", FALSE, FALSE) }

\* Faulty variant: the address kept as it was typed.
toLowerCase_Keeps(email) == email

toLowerCase(email) == [email EXCEPT !.caps = FALSE]

\* A password: its text and the character classes isValidPassword looks at.
Password(text, len, up, lo, dig, sym) ==
    [text |-> text, len |-> len, upper |-> up, lower |-> lo, digit |-> dig, symbol |-> sym]
Passwords ==
    { Password("Sup3r$ecret", 11, TRUE, TRUE, TRUE, TRUE),
      Password("weak", 4, FALSE, TRUE, FALSE, FALSE) }

isValidEmail(email) == email.shaped

isValidPassword(password) ==
    /\ password.len >= MinPasswordLen
    /\ password.upper
    /\ password.lower
    /\ password.digit
    /\ password.symbol

bcryptHash(password) == [bcrypt |-> password.text]
bcryptCompare(password, hash) == hash = [bcrypt |-> password.text]

\* A string as the gateway sees it: its length, its alphabet and its content.
Str(len, cs, id) == [len |-> len, cs |-> cs, id |-> id]
\* crypto.randomBytes(32).toString("hex"): 64 lower-case hex digits.
RandomHex(n) == Str(HexLen, "lowerhex", n)
RandomHexValues == { RandomHex(n) : n \in 1..MaxRandom }
\* The values a random draw into a UNIQUE column can take, up to renaming: the
\* first value not in the column yet, or one of those already in it.
RandomDraws(taken) ==
    taken \cup { RandomHex(n) : n \in { k \in 1..MaxRandom :
                     /\ RandomHex(k) \notin taken
                     /\ \A j \in 1..(k - 1) : RandomHex(j) \in taken } }

\* sha256 of a token: injective, and never equal to the token itself.
hashToken(token) == [sha256 |-> token]

\* ------------------------------------------------------------- TokenService
jwtSign(payload, secret) == [payload |-> payload, sig |-> secret]

generateAccessToken(user, t) ==
    jwtSign([sub |-> user.id, tenant_id |-> user.tenant_id, email |-> user.email,
             role |-> user.role, type |-> "access", iat |-> t,
             exp |-> t + accessTokenTTL], ACCESS_TOKEN_SECRET)

generateRefreshToken(user, t) ==
    jwtSign([sub |-> user.id, type |-> "refresh", iat |-> t,
             exp |-> t + refreshTokenTTL], REFRESH_TOKEN_SECRET)

\* jwt.verify: the signature is the secret's and the exp claim is in the future.
jwtVerify(token, secret, t) ==
    /\ token.sig = secret
    /\ t < token.payload.exp

\* TRUE when verifyAccessToken returns a payload (the token's), FALSE for null.
verifyAccessToken(token, t) ==
    /\ jwtVerify(token, ACCESS_TOKEN_SECRET, t)
    /\ token.payload.type = "access"

verifyRefreshToken(token, t) ==
    /\ jwtVerify(token, REFRESH_TOKEN_SECRET, t)
    /\ token.payload.type = "refresh"

\* "invalid.token.here": no valid signature.
GarbageToken == jwtSign([type |-> "none", exp |-> 0], "none")

\* A TokenService built with secrets of its own: new TokenService(a, r).
\* The constructor throws "Token secrets not configured" for an empty one and
\* takes two equal ones.
TokenService(accessTokenSecret, refreshTokenSecret) ==
    [accessTokenSecret |-> accessTokenSecret,
     refreshTokenSecret |-> refreshTokenSecret]

TokenServiceConfigured(svc) ==
    svc.accessTokenSecret # "" /\ svc.refreshTokenSecret # ""

TokenSecrets == {"", ACCESS_TOKEN_SECRET, REFRESH_TOKEN_SECRET}

mintAccessToken(svc, user, t) ==
    jwtSign([sub |-> user.id, tenant_id |-> user.tenant_id, email |-> user.email,
             role |-> user.role, type |-> "access", iat |-> t,
             exp |-> t + accessTokenTTL], svc.accessTokenSecret)

\* Faulty variant: a refresh token that carries the user's email and role.
mintRefreshToken_CarriesProfile(svc, user, t) ==
    jwtSign([sub |-> user.id, email |-> user.email, role |-> user.role,
             type |-> "refresh", iat |-> t,
             exp |-> t + refreshTokenTTL], svc.refreshTokenSecret)

mintRefreshToken(svc, user, t) ==
    jwtSign([sub |-> user.id, type |-> "refresh", iat |-> t,
             exp |-> t + refreshTokenTTL], svc.refreshTokenSecret)

\* Faulty variant: the payload returned whatever its type says.
decodeAccessToken_AnyType(svc, token, t) ==
    IF jwtVerify(token, svc.accessTokenSecret, t) THEN Some(token.payload) ELSE NULL

\* What verifyAccessToken returns: the payload, or null (HS256 throughout).
decodeAccessToken(svc, token, t) ==
    IF ~jwtVerify(token, svc.accessTokenSecret, t) THEN NULL
    ELSE IF token.payload.type # "access" THEN NULL
    ELSE Some(token.payload)

decodeRefreshToken(svc, token, t) ==
    IF ~jwtVerify(token, svc.refreshTokenSecret, t) THEN NULL
    ELSE IF token.payload.type # "refresh" THEN NULL
    ELSE Some(token.payload)

\* The users a token is minted for: the fields the service reads.
TokenUserIds == {"user-1", "user-2"}
TokenTenantIds == {"tenant-1", "tenant-2"}
TokenRoles == {"owner", "member"}
TokenUsers ==
    { [id |-> i, tenant_id |-> n, email |-> e, role |-> r] :
        i \in TokenUserIds, n \in TokenTenantIds,
        e \in { m \in Emails : m.shaped }, r \in TokenRoles }

\* ------------------------------------------------------------------- state
VARIABLES
    now,                        \* the clock, in seconds
    ticks,                      \* how often the clock has advanced
    tenants,                    \* table tenants
    users,                      \* table users
    user_oauth_providers,       \* table user_oauth_providers
    user_sessions,              \* table user_sessions
    email_verification_tokens,  \* table email_verification_tokens
    password_reset_tokens,      \* table password_reset_tokens
    gateway_tokens,             \* table gateway_tokens
    issued,                     \* JWTs handed to callers so far
    redis,                      \* the rate limiter's this.redis: null or a cache
    checks,                     \* rate-limit checks under way, by caller
    inflight,                   \* service requests under way or just ended, by caller
    localStorage,               \* the browser's accessToken and refreshToken items
    location,                   \* window.location.href of the browser
    requests,                   \* the browser's calls through the axios instance
    last                        \* the call just made and its outcome

tables == <<tenants, users, user_oauth_providers, user_sessions,
            email_verification_tokens, password_reset_tokens, gateway_tokens>>
limiter == <<redis, checks>>
browser == <<localStorage, location, requests>>
vars == <<now, ticks, tenants, users, user_oauth_providers, user_sessions,
          email_verification_tokens, password_reset_tokens, gateway_tokens,
          issued, redis, checks, inflight, localStorage, location, requests,
          last>>

Rows(table) == { table[i] : i \in 1..Len(table) }
RowId(tbl, n) == [tbl |-> tbl, n |-> n]

\* The rate limiter's four checks: key prefix, window in seconds, limit.
RateLimits ==
    [login |-> [prefix |-> "rate:login:", window |-> 15 * 60, limit |-> 5],
     register |-> [prefix |-> "rate:register:", window |-> 60 * 60, limit |-> 3],
     passwordReset |-> [prefix |-> "rate:password-reset:", window |-> 60 * 60,
                        limit |-> 3],
     emailVerify |-> [prefix |-> "rate:email-verify:", window |-> 60 * 60,
                      limit |-> 5]]
RateKinds == DOMAIN RateLimits

\* The callers' identifiers: IP addresses, or user ids for emailVerify.
RateIdentifiers == {"id-1", "id-2"}

\* `${prefix}${identifier}`
RateKey(kind, identifier) == [prefix |-> RateLimits[kind].prefix, id |-> identifier]
RateKeys == { RateKey(k, i) : k \in RateKinds, i \in RateIdentifiers }

\* A cache with no keys: count 0 stands for a key that is not there.
NoKey == [count |-> 0, expire_at |-> NULL]
EmptyCache == [k \in RateKeys |-> NoKey]

Clients == 1..MaxClients
RequestIds == 1..MaxRequests
Idle == [pc |-> "idle"]

InitTables ==
    /\ now = 0
    /\ ticks = 0
    /\ tenants = <<>>
    /\ users = <<>>
    /\ user_oauth_providers = <<>>
    /\ user_sessions = <<>>
    /\ email_verification_tokens = <<>>
    /\ password_reset_tokens = <<>>
    /\ gateway_tokens = <<>>
    /\ issued = {}
    /\ localStorage = [accessToken |-> NULL, refreshToken |-> NULL]
    /\ location = "/"
    /\ requests = [r \in RequestIds |-> [pc |-> "idle"]]
    /\ last = [op |-> "init"]

\* REDIS_URL is set: the limiter holds a client of a cache.
Init ==
    /\ InitTables
    /\ redis = Some(EmptyCache)
    /\ checks = [c \in Clients |-> Idle]
    /\ inflight = [c \in Clients |-> Idle]

\* REDIS_URL set or not: this.redis is a client or null.
InitLimiter ==
    /\ InitTables
    /\ redis \in {NULL, Some(EmptyCache)}
    /\ checks = [c \in Clients |-> Idle]
    /\ inflight = [c \in Clients |-> Idle]


\* ------------------------------------------------------- store lookups
UsersByEmail(email) == { u \in Rows(users) : u.email = email }
UserById(id) == CHOOSE u \in Rows(users) : u.id = id

\* pg builds one object per row, keyed by column name: in SELECT s.*, u.* a
\* column of users overwrites the column of user_sessions with the same name
\* (id is one).
JoinSessionUser(s, u) ==
    [f \in (DOMAIN s) \cup (DOMAIN u) |-> IF f \in DOMAIN u THEN u[f] ELSE s[f]]

\* user_sessions.access_token_hash and refresh_token_hash are UNIQUE.
SessionInsertOK(row) ==
    \A s \in Rows(user_sessions) :
        /\ s.access_token_hash # row.access_token_hash
        /\ s.refresh_token_hash # row.refresh_token_hash

\* ------------------------------------------------------------ createSession
\* The row createSession inserts for `user` at the current time, and the
\* token pair it returns.
SessionTokens(user) ==
    [accessToken |-> generateAccessToken(user, now),
     refreshToken |-> generateRefreshToken(user, now)]

SessionRow(user) ==
    [id |-> RowId("user_sessions", Len(user_sessions) + 1),
     user_id |-> user.id,
     access_token_hash |-> hashToken(SessionTokens(user).accessToken),
     refresh_token_hash |-> hashToken(SessionTokens(user).refreshToken),
     access_token_expires_at |-> now + accessTokenTTL,
     refresh_token_expires_at |-> now + refreshTokenTTL,
     is_active |-> TRUE,
     revoked_at |-> NULL,
     revoked_reason |-> NULL]

\* ---------------------------------------------------------- registerWithEmail
TenantRow(email) ==
    [id |-> RowId("tenants", Len(tenants) + 1),
     plan_type |-> "free", plan_status |-> "trial"]

UserRow(tenant, email, password) ==
    [id |-> RowId("users", Len(users) + 1),
     tenant_id |-> tenant.id,
     email |-> toLowerCase(email),
     password_hash |-> Some(bcryptHash(password)),
     role |-> "owner",
     status |-> "active",
     email_verified |-> FALSE,
     two_factor_enabled |-> FALSE]

VerificationRow(user, token, email) ==
    [id |-> RowId("email_verification_tokens", Len(email_verification_tokens) + 1),
     user_id |-> user.id, token |-> token,
     expires_at |-> now + verificationTokenTTL, used_at |-> NULL]

RegisterOutcome(email, password, token) ==
    IF ~isValidEmail(email) THEN "Invalid email format"
    ELSE IF ~isValidPassword(password) THEN "Password must be at least 8 characters"
    ELSE IF UsersByEmail(toLowerCase(email)) # {} THEN "Email already registered"
    ELSE IF \E v \in Rows(email_verification_tokens) : v.token = token
         THEN "duplicate key"
    ELSE "ok"

\* One audit_log row: the columns the service fills that a property reads.
AuditEntry(action, status, userId, reason) ==
    [action |-> action, status |-> status, user_id |-> userId, reason |-> reason]

\* The statements of registerWithEmail's try block, in program order.
RegisterStatements ==
    <<"BEGIN", "INSERT tenants", "INSERT users", "INSERT email_verification_tokens",
      "COMMIT", "sendVerificationEmail", "createSession", "auditLogger.log">>

\* The statements that can throw into the catch block: the store calls.  The
\* rejection of sendVerificationEmail's promise is caught where the call is
\* made, and auditLogger.log catches its own errors.
ThrowingStatements ==
    {"BEGIN", "INSERT tenants", "INSERT users", "INSERT email_verification_tokens",
     "COMMIT", "createSession"}

IndexOf(statement) ==
    CHOOSE i \in 1..Len(RegisterStatements) : RegisterStatements[i] = statement

\* The statement that throws in a call, "none" if none does: the one the
\* store rejects, or the token insert when the drawn token is already stored,
\* whichever comes first.
Thrown(outcome, failing) ==
    IF /\ outcome = "duplicate key"
       /\ (failing = "none" \/ IndexOf(failing) > IndexOf("INSERT email_verification_tokens"))
    THEN "INSERT email_verification_tokens"
    ELSE failing

\* The statements a call runs: all of them, or those up to the one that throws
\* followed by the catch block's ROLLBACK.
StatementsRun(thrown) ==
    IF thrown = "none" THEN RegisterStatements
    ELSE Append(SubSeq(RegisterStatements, 1, IndexOf(thrown)), "ROLLBACK")

\* Faulty variant: every insert commits by itself, as without BEGIN.
Persists_Autocommit(statement, thrown) ==
    thrown = "none" \/ IndexOf(statement) < IndexOf(thrown)

\* The row `statement` inserts is in the table after the call: the inserts of
\* the transaction persist together once COMMIT has returned, and the ROLLBACK
\* of the catch block undoes nothing after that.
Persists(statement, thrown) ==
    thrown = "none" \/ IndexOf("COMMIT") < IndexOf(thrown)

\* Faulty variant: a rejected email send reaches the caller.
RegisterError_MailFailureThrows(outcome, thrown, mail) ==
    IF outcome \notin {"ok", "duplicate key"} THEN outcome
    ELSE IF thrown # "none"
         THEN (IF outcome = "duplicate key" /\ thrown = "INSERT email_verification_tokens"
               THEN "duplicate key" ELSE "store error")
    ELSE IF mail = "fails" THEN "Failed to send verification email"
    ELSE ""

\* The message of the error the call throws, "" when it returns.
RegisterError(outcome, thrown, mail) ==
    IF outcome \notin {"ok", "duplicate key"} THEN outcome
    ELSE IF thrown # "none"
         THEN (IF outcome = "duplicate key" /\ thrown = "INSERT email_verification_tokens"
               THEN "duplicate key" ELSE "store error")
    ELSE ""

\* registerWithEmail in an environment where the store rejects the statement
\* `failing` ("none": it rejects nothing) and the verification mail is `mail`
\* ("sent" or "fails").
registerWithEmailUnder(email, password, token, failing, mail) ==
    LET outcome == RegisterOutcome(email, password, token)
        started == outcome \in {"ok", "duplicate key"}
        thrown == Thrown(outcome, failing)
        error == RegisterError(outcome, thrown, mail)
        statements == IF started THEN StatementsRun(thrown) ELSE <<>>
        requested == \E i \in 1..Len(statements) : statements[i] = "sendVerificationEmail"
        tenant == TenantRow(email)
        user == UserRow(tenant, email, password)
    IN  /\ Len(users) < MaxUsers
        /\ Len(user_sessions) < MaxSessions
        /\ tenants' = IF started /\ Persists("INSERT tenants", thrown)
                      THEN Append(tenants, tenant) ELSE tenants
        /\ users' = IF started /\ Persists("INSERT users", thrown)
                    THEN Append(users, user) ELSE users
        /\ email_verification_tokens' =
               IF started /\ Persists("INSERT email_verification_tokens", thrown)
               THEN Append(email_verification_tokens, VerificationRow(user, token, email))
               ELSE email_verification_tokens
        /\ user_sessions' = IF started /\ thrown = "none"
                            THEN Append(user_sessions, SessionRow(user)) ELSE user_sessions
        /\ issued' = IF error = ""
                     THEN issued \cup {SessionTokens(user).accessToken,
                                       SessionTokens(user).refreshToken}
                     ELSE issued
        /\ last' = IF error = ""
                   THEN [op |-> "registerWithEmail", ok |-> TRUE, error |-> "",
                         user |-> user, tokens |-> SessionTokens(user),
                         statements |-> statements, mail |-> mail,
                         audit |-> {AuditEntry("user.registered", "success",
                                               Some(user.id), NULL)}]
                   ELSE [op |-> "registerWithEmail", ok |-> FALSE, error |-> error,
                         statements |-> statements,
                         mail |-> IF requested THEN mail ELSE "not requested",
                         audit |-> {}]
        /\ UNCHANGED <<limiter, browser, inflight, now, ticks, user_oauth_providers, password_reset_tokens,
                       gateway_tokens>>

\* registerWithEmail over a store that rejects nothing and a mailer that sends.
registerWithEmail(email, password, token) ==
    registerWithEmailUnder(email, password, token, "none", "sent")

RegisterWithEmail ==
    \E email \in Emails, password \in Passwords,
       token \in RandomDraws({ v.token : v \in Rows(email_verification_tokens) }) :
        registerWithEmail(email, password, token)

\* registerWithEmail over a store and a mailer that can fail.
RegisterWithEmailUnder ==
    \E email \in Emails, password \in Passwords,
       token \in RandomDraws({ v.token : v \in Rows(email_verification_tokens) }),
       failing \in ThrowingStatements \cup {"none"}, mail \in {"sent", "fails"} :
        registerWithEmailUnder(email, password, token, failing, mail)

\* ------------------------------------------------------------- loginWithEmail
LoginOutcome(email, password) ==
    LET found == UsersByEmail(toLowerCase(email))
        user == CHOOSE u \in found : TRUE
    IN  IF found = {} THEN "Invalid email or password"
        ELSE IF user.status # "active" THEN "Account suspended"
        ELSE IF user.password_hash = NULL THEN "Please login with OAuth provider"
        ELSE IF \A h \in user.password_hash : ~bcryptCompare(password, h)
             THEN "Invalid email or password"
        ELSE IF user.two_factor_enabled THEN "2FA not yet implemented"
        ELSE IF ~SessionInsertOK(SessionRow(user)) THEN "duplicate key"
        ELSE "ok"

\* The audit_log rows loginWithEmail writes on the path it takes.
LoginAudit(email, password) ==
    LET found == UsersByEmail(toLowerCase(email))
        user == CHOOSE u \in found : TRUE
    IN  IF found = {}
        THEN {AuditEntry("user.login_failed", "failure", NULL, Some("user_not_found"))}
        ELSE IF user.status # "active"
        THEN {AuditEntry("user.login_failed", "failure", Some(user.id),
                         Some("account_suspended"))}
        ELSE IF user.password_hash = NULL THEN {}
        ELSE IF \A h \in user.password_hash : ~bcryptCompare(password, h)
        THEN {AuditEntry("user.login_failed", "failure", Some(user.id),
                         Some("invalid_password"))}
        ELSE IF user.two_factor_enabled THEN {}
        ELSE IF ~SessionInsertOK(SessionRow(user)) THEN {}
        ELSE {AuditEntry("user.login", "success", Some(user.id), NULL)}

\* POST /auth/login: the service's result, or status 401 with the message of
\* the error it threw.
loginResponse(outcome) ==
    IF outcome = "ok" THEN [status |-> 200, error |-> ""]
    ELSE [status |-> 401, error |-> outcome]

loginWithEmail(email, password) ==
    LET outcome == LoginOutcome(email, password)
        user == CHOOSE u \in UsersByEmail(toLowerCase(email)) : TRUE
    IN  /\ Len(user_sessions) < MaxSessions
        /\ IF outcome = "ok"
           THEN /\ user_sessions' = Append(user_sessions, SessionRow(user))
                /\ issued' = issued \cup {SessionTokens(user).accessToken,
                                          SessionTokens(user).refreshToken}
                /\ last' = [op |-> "loginWithEmail", ok |-> TRUE, error |-> "",
                            user |-> user, tokens |-> SessionTokens(user),
                            response |-> loginResponse(outcome),
                            audit |-> LoginAudit(email, password)]
           ELSE /\ UNCHANGED <<user_sessions, issued>>
                /\ last' = [op |-> "loginWithEmail", ok |-> FALSE, error |-> outcome,
                            response |-> loginResponse(outcome),
                            audit |-> LoginAudit(email, password)]
        /\ UNCHANGED <<limiter, browser, inflight, now, ticks, user_oauth_providers, tenants, users,
                       email_verification_tokens, password_reset_tokens, gateway_tokens>>

LoginWithEmail ==
    \E email \in Emails, password \in Passwords : loginWithEmail(email, password)

\* ---------------------------------------------------------- registerWithOAuth
\* What the provider adapters hand over: the provider, the subject of the
\* verified identity token, the email it asserts (or none) and the provider's
\* own email_verified flag, which travels inside profileData.
OAuthProviders == {"google", "apple"}
ProviderUserIds == {"sub-1", "sub-2"}
ProviderEmails ==
    {NULL} \cup { Some(e) : e \in { m \in Emails : m.shaped /\ m.name = "a@x.io" } }

\* `${provider}-${providerUserId}@oauth.local`
OAuthLocalEmail(provider, providerUserId) ==
    Email(provider \o "-" \o providerUserId \o "@oauth.local", FALSE, TRUE)

\* SELECT user_id FROM user_oauth_providers WHERE provider = $1 AND provider_user_id = $2
OAuthLinks(provider, providerUserId) ==
    { l \in Rows(user_oauth_providers) :
        l.provider = provider /\ l.provider_user_id = providerUserId }

\* Faulty variant: the asserted email compared as the provider spelled it.
OAuthExistingUsers_CaseSensitive(providerEmail) ==
    { u \in Rows(users) : \E e \in providerEmail : u.email = e }

\* SELECT * FROM users WHERE email = lower(providerEmail), when one is given.
OAuthExistingUsers(providerEmail) ==
    { u \in Rows(users) : \E e \in providerEmail : u.email = toLowerCase(e) }

\* Faulty variant: the link lookup left out.
OAuthBranch_IgnoresLink(provider, providerUserId, providerEmail) ==
    IF OAuthExistingUsers(providerEmail) # {} THEN "link" ELSE "create"

\* The path registerWithOAuth takes: login of the linked user, link to the
\* user with the asserted email, or creation of a tenant and a user.
OAuthBranch(provider, providerUserId, providerEmail) ==
    IF OAuthLinks(provider, providerUserId) # {} THEN "login"
    ELSE IF OAuthExistingUsers(providerEmail) # {} THEN "link"
    ELSE "create"

\* providerEmail || `${provider}-${providerUserId}@oauth.local`
OAuthEmail(provider, providerUserId, providerEmail) ==
    IF providerEmail = NULL THEN OAuthLocalEmail(provider, providerUserId)
    ELSE CHOOSE e \in providerEmail : TRUE

\* The users row of the create path: no password, email_verified = !!providerEmail.
OAuthUserRow(tenant, email, providerEmail) ==
    [id |-> RowId("users", Len(users) + 1),
     tenant_id |-> tenant.id,
     email |-> toLowerCase(email),
     password_hash |-> NULL,
     role |-> "owner",
     status |-> "active",
     email_verified |-> (providerEmail # NULL),
     two_factor_enabled |-> FALSE]

OAuthLinkRow(user, provider, providerUserId, providerEmail) ==
    [id |-> RowId("user_oauth_providers", Len(user_oauth_providers) + 1),
     user_id |-> user.id,
     provider |-> provider,
     provider_user_id |-> providerUserId,
     provider_email |-> providerEmail]

\* The user the call is about on each path.
OAuthUser(provider, providerUserId, providerEmail) ==
    LET branch == OAuthBranch(provider, providerUserId, providerEmail)
    IN  IF branch = "login"
        THEN UserById((CHOOSE l \in OAuthLinks(provider, providerUserId) : TRUE).user_id)
        ELSE IF branch = "link"
        THEN CHOOSE u \in OAuthExistingUsers(providerEmail) : TRUE
        ELSE OAuthUserRow(TenantRow(OAuthEmail(provider, providerUserId, providerEmail)),
                          OAuthEmail(provider, providerUserId, providerEmail),
                          providerEmail)

\* "ok", "rolled back" when an insert of the transaction violates a UNIQUE
\* constraint, "duplicate key" when createSession's insert does after the
\* commit (or on the login path, which has no transaction).
OAuthOutcome(provider, providerUserId, providerEmail) ==
    LET branch == OAuthBranch(provider, providerUserId, providerEmail)
        user == OAuthUser(provider, providerUserId, providerEmail)
    IN  IF branch = "create" /\ UsersByEmail(user.email) # {} THEN "rolled back"
        ELSE IF ~SessionInsertOK(SessionRow(user)) THEN "duplicate key"
        ELSE "ok"

OAuthAudit(branch, user) ==
    {AuditEntry(IF branch = "login" THEN "user.login"
                ELSE IF branch = "link" THEN "user.oauth_linked"
                ELSE "user.registered",
                "success", Some(user.id), NULL)}

registerWithOAuth(provider, providerUserId, providerEmail, emailVerified) ==
    LET branch == OAuthBranch(provider, providerUserId, providerEmail)
        user == OAuthUser(provider, providerUserId, providerEmail)
        outcome == OAuthOutcome(provider, providerUserId, providerEmail)
        committed == outcome # "rolled back"
    IN  /\ Len(user_sessions) < MaxSessions
        /\ branch = "create" => Len(users) < MaxUsers
        /\ branch # "login" => Len(user_oauth_providers) < MaxLinks
        /\ tenants' = IF branch = "create" /\ committed
                      THEN Append(tenants,
                                  TenantRow(OAuthEmail(provider, providerUserId, providerEmail)))
                      ELSE tenants
        /\ users' = IF branch = "create" /\ committed THEN Append(users, user) ELSE users
        /\ user_oauth_providers' =
               IF branch # "login" /\ committed
               THEN Append(user_oauth_providers,
                           OAuthLinkRow(user, provider, providerUserId, providerEmail))
               ELSE user_oauth_providers
        /\ user_sessions' = IF outcome = "ok"
                            THEN Append(user_sessions, SessionRow(user)) ELSE user_sessions
        /\ issued' = IF outcome = "ok"
                     THEN issued \cup {SessionTokens(user).accessToken,
                                       SessionTokens(user).refreshToken}
                     ELSE issued
        /\ last' = [op |-> "registerWithOAuth", ok |-> (outcome = "ok"),
                    error |-> IF outcome = "ok" THEN "" ELSE outcome,
                    branch |-> branch, provider |-> provider,
                    providerUserId |-> providerUserId, providerEmail |-> providerEmail,
                    emailVerified |-> emailVerified,
                    user |-> user, tenant |-> user.tenant_id,
                    audit |-> IF outcome = "ok" THEN OAuthAudit(branch, user) ELSE {}]
        /\ UNCHANGED <<limiter, browser, inflight, now, ticks, email_verification_tokens, password_reset_tokens,
                       gateway_tokens>>

\* A provider asserts email_verified only of an email it asserts.
RegisterWithOAuth ==
    \E provider \in OAuthProviders, providerUserId \in ProviderUserIds,
       providerEmail \in ProviderEmails, emailVerified \in BOOLEAN :
        /\ providerEmail = NULL => ~emailVerified
        /\ registerWithOAuth(provider, providerUserId, providerEmail, emailVerified)

\* ------------------------------------------------------------- users.status
\* An operator's UPDATE users SET status = 'suspended': no handler of the
\* service writes the column, loginWithEmail reads it.
suspendUser(userId) ==
    /\ users' = [i \in 1..Len(users) |->
                    IF users[i].id = userId
                    THEN [users[i] EXCEPT !.status = "suspended"]
                    ELSE users[i]]
    /\ last' = [op |-> "suspendUser", user_id |-> userId]
    /\ UNCHANGED <<limiter, browser, inflight, now, ticks, user_oauth_providers, tenants, user_sessions,
                   email_verification_tokens, password_reset_tokens, gateway_tokens,
                   issued>>

SuspendUser == \E u \in Rows(users) : u.status = "active" /\ suspendUser(u.id)

\* --------------------------------------------------------- refreshAccessToken
\* The joined rows the refresh query returns for a presented token.
RefreshRows(refreshToken) ==
    { JoinSessionUser(s, UserById(s.user_id)) :
        s \in { r \in Rows(user_sessions) :
                  /\ r.refresh_token_hash = hashToken(refreshToken)
                  /\ r.is_active
                  /\ r.refresh_token_expires_at > now } }

\* UPDATE user_sessions SET <the new hashes and expiries> WHERE id = <id>.
RotateSessions(id, tokens) ==
    [i \in 1..Len(user_sessions) |->
        IF user_sessions[i].id = id
        THEN [user_sessions[i] EXCEPT
                 !.access_token_hash = hashToken(tokens.accessToken),
                 !.refresh_token_hash = hashToken(tokens.refreshToken),
                 !.access_token_expires_at = now + accessTokenTTL,
                 !.refresh_token_expires_at = now + refreshTokenTTL]
        ELSE user_sessions[i]]

\* The UNIQUE indexes of user_sessions hold of a table.
SessionsUnique(table) ==
    \A i, j \in 1..Len(table) :
        i # j => /\ table[i].access_token_hash # table[j].access_token_hash
                 /\ table[i].refresh_token_hash # table[j].refresh_token_hash

refreshAccessToken(refreshToken) ==
    LET rows == RefreshRows(refreshToken)
        session == CHOOSE r \in rows : TRUE
        tokens == SessionTokens(session)
        updated == RotateSessions(session.id, tokens)
    IN  IF rows = {}
        THEN /\ last' = [op |-> "refreshAccessToken", token |-> refreshToken,
                         ok |-> FALSE, error |-> "Invalid or expired refresh token"]
             /\ UNCHANGED <<tables, limiter, inflight, now, ticks, issued>>
        ELSE IF ~SessionsUnique(updated)
        THEN /\ last' = [op |-> "refreshAccessToken", token |-> refreshToken,
                         ok |-> FALSE, error |-> "duplicate key"]
             /\ UNCHANGED <<tables, limiter, inflight, now, ticks, issued>>
        ELSE /\ user_sessions' = updated
             /\ issued' = issued \cup {tokens.accessToken, tokens.refreshToken}
             /\ last' = [op |-> "refreshAccessToken", token |-> refreshToken,
                         ok |-> TRUE, error |-> "", tokens |-> tokens]
             /\ UNCHANGED <<limiter, inflight, now, ticks, user_oauth_providers, tenants, users, email_verification_tokens,
                            password_reset_tokens, gateway_tokens>>

\* What a caller can present as a bearer or refresh token.
PresentableTokens == issued \cup {GarbageToken}

RefreshAccessToken ==
    \E token \in PresentableTokens :
        refreshAccessToken(token) /\ UNCHANGED browser

\* -------------------------------------------------------- validateAccessToken
\* Faulty variant: the session query without its is_active condition.
AccessRows_IgnoresActive(accessToken) ==
    { JoinSessionUser(s, UserById(s.user_id)) :
        s \in { r \in Rows(user_sessions) :
                  /\ r.access_token_hash = hashToken(accessToken)
                  /\ r.access_token_expires_at > now } }

\* The joined rows the session query of validateAccessToken returns.
AccessRows(accessToken) ==
    { JoinSessionUser(s, UserById(s.user_id)) :
        s \in { r \in Rows(user_sessions) :
                  /\ r.access_token_hash = hashToken(accessToken)
                  /\ r.is_active
                  /\ r.access_token_expires_at > now } }

ValidateOutcome(accessToken) ==
    IF ~verifyAccessToken(accessToken, now) THEN "Invalid access token"
    ELSE IF AccessRows(accessToken) = {} THEN "Session not found or expired"
    ELSE "ok"

validateAccessToken(accessToken) ==
    LET outcome == ValidateOutcome(accessToken)
        user == CHOOSE r \in AccessRows(accessToken) : TRUE
    IN  /\ last' = IF outcome = "ok"
                   THEN [op |-> "validateAccessToken", token |-> accessToken,
                         ok |-> TRUE, error |-> "", user_id |-> user.id,
                         tenant_id |-> user.tenant_id]
                   ELSE [op |-> "validateAccessToken", token |-> accessToken,
                         ok |-> FALSE, error |-> outcome]
        /\ UNCHANGED <<tables, limiter, browser, inflight, now, ticks, issued>>

ValidateAccessToken == \E token \in PresentableTokens : validateAccessToken(token)

\* ------------------------------------------------------------ logout, logoutAll
\* SET is_active = false, revoked_at = NOW(), revoked_reason = <reason>
\* Faulty variant: a revocation that stamps the row but leaves it active.
RevokedRow_KeepsActive(s, reason) ==
    [s EXCEPT !.revoked_at = Some(now), !.revoked_reason = Some(reason)]

\* Faulty variant: a revocation that flips is_active instead of clearing it.
RevokedRow_Toggles(s, reason) ==
    [s EXCEPT !.is_active = ~s.is_active,
              !.revoked_at = Some(now),
              !.revoked_reason = Some(reason)]

RevokedRow(s, reason) ==
    [s EXCEPT !.is_active = FALSE,
              !.revoked_at = Some(now),
              !.revoked_reason = Some(reason)]

LogoutSessions(accessToken) ==
    [i \in 1..Len(user_sessions) |->
        IF user_sessions[i].access_token_hash = hashToken(accessToken)
        THEN RevokedRow(user_sessions[i], "user_logout")
        ELSE user_sessions[i]]

\* Faulty variant: the UPDATE keyed by the session's id instead of user_id.
LogoutAllSessions_BySessionId(userId) ==
    [i \in 1..Len(user_sessions) |->
        IF user_sessions[i].id = userId
        THEN RevokedRow(user_sessions[i], "logout_all")
        ELSE user_sessions[i]]

LogoutAllSessions(userId) ==
    [i \in 1..Len(user_sessions) |->
        IF user_sessions[i].user_id = userId
        THEN RevokedRow(user_sessions[i], "logout_all")
        ELSE user_sessions[i]]

logout(accessToken) ==
    /\ user_sessions' = LogoutSessions(accessToken)
    /\ last' = [op |-> "logout", token |-> accessToken, ok |-> TRUE]
    /\ UNCHANGED <<limiter, browser, inflight, now, ticks, user_oauth_providers, tenants, users, email_verification_tokens,
                   password_reset_tokens, gateway_tokens, issued>>

Logout == \E token \in PresentableTokens : logout(token)

logoutAll(userId) ==
    /\ user_sessions' = LogoutAllSessions(userId)
    /\ last' = [op |-> "logoutAll", user_id |-> userId, ok |-> TRUE]
    /\ UNCHANGED <<limiter, browser, inflight, now, ticks, user_oauth_providers, tenants, users, email_verification_tokens,
                   password_reset_tokens, gateway_tokens, issued>>

LogoutAll == \E u \in Rows(users) : logoutAll(u.id)

\* -------------------------------------------------------- requestPasswordReset
ResetRow(user, token) ==
    [id |-> RowId("password_reset_tokens", Len(password_reset_tokens) + 1),
     user_id |-> user.id, token |-> token,
     expires_at |-> now + resetTokenTTL, used_at |-> NULL]

\* Faulty variant: an email that belongs to nobody is reported.
ResetRequestOutcome_ReportsUnknown(email, token) ==
    IF UsersByEmail(toLowerCase(email)) = {} THEN "User not found"
    ELSE IF \E r \in Rows(password_reset_tokens) : r.token = token THEN "duplicate key"
    ELSE "ok"

\* "ok" when requestPasswordReset returns, else the message of what it throws.
ResetRequestOutcome(email, token) ==
    IF UsersByEmail(toLowerCase(email)) = {} THEN "ok"
    ELSE IF \E r \in Rows(password_reset_tokens) : r.token = token THEN "duplicate key"
    ELSE "ok"

\* POST /auth/reset-password/request: status and body of the response.
resetRequestResponse(outcome) ==
    IF outcome = "ok"
    THEN [status |-> 200, body |-> "If the email exists, a reset link has been sent"]
    ELSE [status |-> 400, body |-> outcome]

requestPasswordReset(email, token) ==
    LET found == UsersByEmail(toLowerCase(email))
        user == CHOOSE u \in found : TRUE
        outcome == ResetRequestOutcome(email, token)
    IN  /\ Len(password_reset_tokens) < MaxResetTokens
        /\ password_reset_tokens' =
               IF found # {} /\ outcome = "ok"
               THEN Append(password_reset_tokens, ResetRow(user, token))
               ELSE password_reset_tokens
        /\ last' = [op |-> "requestPasswordReset", email |-> email,
                    ok |-> (outcome = "ok"), response |-> resetRequestResponse(outcome)]
        /\ UNCHANGED <<limiter, browser, inflight, now, ticks, user_oauth_providers, tenants, users, user_sessions,
                       email_verification_tokens, gateway_tokens, issued>>

RequestPasswordReset ==
    \E email \in Emails,
       token \in RandomDraws({ r.token : r \in Rows(password_reset_tokens) }) :
        requestPasswordReset(email, token)

\* ---------------------------------------------------------------- resetPassword
\* Faulty variant: the lookup without its used_at IS NULL condition.
ResetRows_IgnoresUsed(token) ==
    { r \in Rows(password_reset_tokens) : r.token = token /\ r.expires_at > now }

ResetRows(token) ==
    { r \in Rows(password_reset_tokens) :
        r.token = token /\ r.used_at = NULL /\ r.expires_at > now }

resetPassword(token, newPassword) ==
    LET rows == ResetRows(token)
        resetToken == CHOOSE r \in rows : TRUE
    IN  IF rows = {}
        THEN /\ last' = [op |-> "resetPassword", token |-> token, ok |-> FALSE,
                         error |-> "Invalid or expired reset token"]
             /\ UNCHANGED <<tables, limiter, browser, inflight, now, ticks, issued>>
        ELSE IF ~isValidPassword(newPassword)
        THEN /\ last' = [op |-> "resetPassword", token |-> token, ok |-> FALSE,
                         error |-> "Password must be at least 8 characters"]
             /\ UNCHANGED <<tables, limiter, browser, inflight, now, ticks, issued>>
        ELSE /\ users' = [i \in 1..Len(users) |->
                            IF users[i].id = resetToken.user_id
                            THEN [users[i] EXCEPT
                                     !.password_hash = Some(bcryptHash(newPassword))]
                            ELSE users[i]]
             /\ password_reset_tokens' =
                    [i \in 1..Len(password_reset_tokens) |->
                        IF password_reset_tokens[i].id = resetToken.id
                        THEN [password_reset_tokens[i] EXCEPT !.used_at = Some(now)]
                        ELSE password_reset_tokens[i]]
             /\ user_sessions' = LogoutAllSessions(resetToken.user_id)
             /\ last' = [op |-> "resetPassword", token |-> token, ok |-> TRUE,
                         error |-> "", user_id |-> resetToken.user_id]
             /\ UNCHANGED <<limiter, browser, inflight, now, ticks, user_oauth_providers, tenants, email_verification_tokens,
                            gateway_tokens, issued>>

ResetPassword ==
    \E token \in RandomHexValues, newPassword \in Passwords :
        resetPassword(token, newPassword)

\* ------------------------------------------------------------------ verifyEmail
\* WHERE token = $1 AND used_at IS NULL AND expires_at > NOW()
VerificationRows(token) ==
    { v \in Rows(email_verification_tokens) :
        v.token = token /\ v.used_at = NULL /\ v.expires_at > now }

\* The users column email_verified_at, written with email_verified and read
\* by nothing, is left out of the rows.
verifyEmail(token) ==
    LET rows == VerificationRows(token)
        verification == CHOOSE v \in rows : TRUE
    IN  IF rows = {}
        THEN /\ last' = [op |-> "verifyEmail", token |-> token, ok |-> FALSE,
                         error |-> "Invalid or expired verification token"]
             /\ UNCHANGED <<tables, limiter, browser, inflight, now, ticks, issued>>
        ELSE /\ users' = [i \in 1..Len(users) |->
                            IF users[i].id = verification.user_id
                            THEN [users[i] EXCEPT !.email_verified = TRUE]
                            ELSE users[i]]
             /\ email_verification_tokens' =
                    [i \in 1..Len(email_verification_tokens) |->
                        IF email_verification_tokens[i].id = verification.id
                        THEN [email_verification_tokens[i] EXCEPT !.used_at = Some(now)]
                        ELSE email_verification_tokens[i]]
             /\ last' = [op |-> "verifyEmail", token |-> token, ok |-> TRUE,
                         error |-> "", user_id |-> verification.user_id]
             /\ UNCHANGED <<limiter, browser, inflight, now, ticks, user_oauth_providers, tenants, user_sessions,
                            password_reset_tokens, gateway_tokens, issued>>

VerifyEmail == \E token \in RandomHexValues : verifyEmail(token)

\* ------------------------------------------------------ exchangeForGatewayToken
\* Faulty variant: the row given the access token's lifetime.
GatewayRow_ShortExpiry(gatewayToken, payload) ==
    [id |-> RowId("gateway_tokens", Len(gateway_tokens) + 1),
     token |-> gatewayToken,
     user_id |-> payload.sub,
     tenant_id |-> payload.tenant_id,
     expires_at |-> now + accessTokenTTL,
     revoked_at |-> NULL]

GatewayRow(gatewayToken, payload) ==
    [id |-> RowId("gateway_tokens", Len(gateway_tokens) + 1),
     token |-> gatewayToken,
     user_id |-> payload.sub,
     tenant_id |-> payload.tenant_id,
     expires_at |-> now + gatewayTokenTTL,
     revoked_at |-> NULL]

\* The check exchangeForGatewayToken makes of the presented access token.
ExchangeAccepts(accessToken) == verifyAccessToken(accessToken, now)

ExchangeOutcome(accessToken, gatewayToken) ==
    IF ~ExchangeAccepts(accessToken) THEN "Invalid access token"
    ELSE IF \E g \in Rows(gateway_tokens) : g.token = gatewayToken THEN "duplicate key"
    ELSE "ok"

exchangeForGatewayToken(accessToken, gatewayToken) ==
    LET outcome == ExchangeOutcome(accessToken, gatewayToken)
    IN  /\ Len(gateway_tokens) < MaxGatewayTokens
        /\ IF outcome = "ok"
           THEN /\ gateway_tokens' =
                       Append(gateway_tokens, GatewayRow(gatewayToken, accessToken.payload))
                /\ last' = [op |-> "exchangeForGatewayToken", token |-> accessToken,
                            ok |-> TRUE, error |-> "", gatewayToken |-> gatewayToken,
                            expiresAt |-> now + gatewayTokenTTL]
           ELSE /\ UNCHANGED gateway_tokens
                /\ last' = [op |-> "exchangeForGatewayToken", token |-> accessToken,
                            ok |-> FALSE, error |-> outcome]
        /\ UNCHANGED <<limiter, browser, inflight, now, ticks, user_oauth_providers, tenants, users, user_sessions,
                       email_verification_tokens, password_reset_tokens, issued>>

ExchangeForGatewayToken ==
    \E token \in PresentableTokens,
       gatewayToken \in RandomDraws({ g.token : g \in Rows(gateway_tokens) }) :
        exchangeForGatewayToken(token, gatewayToken)

\* ------------------------------------------------------------ AuditLogger.log
\* The INSERT INTO audit_log is carried out, or it fails.
AuditInserts == {"ok", "fails"}

\* The rows a call of log leaves in audit_log.
AuditWritten(entries, insert) == IF insert = "ok" THEN entries ELSE {}

\* Faulty variant: log without its catch.
AuditThrows_Propagates(entries, insert) == entries # {} /\ insert = "fails"

\* Whether log throws: its try block holds the INSERT and the catch only
\* writes to the console.
AuditThrows(entries, insert) == FALSE

\* loginWithEmail with an audit_log that can fail. log is awaited before the
\* throw on the failure paths and after createSession on the success path.
loginWithEmailUnder(email, password, insert) ==
    LET outcome == LoginOutcome(email, password)
        user == CHOOSE u \in UsersByEmail(toLowerCase(email)) : TRUE
        entries == LoginAudit(email, password)
        thrown == AuditThrows(entries, insert)
    IN  /\ Len(user_sessions) < MaxSessions
        /\ IF outcome = "ok"
           THEN /\ user_sessions' = Append(user_sessions, SessionRow(user))
                /\ issued' = IF thrown THEN issued
                             ELSE issued \cup {SessionTokens(user).accessToken,
                                               SessionTokens(user).refreshToken}
           ELSE UNCHANGED <<user_sessions, issued>>
        /\ last' = [op |-> "loginWithEmail", email |-> email, password |-> password,
                    insert |-> insert,
                    ok |-> (outcome = "ok" /\ ~thrown),
                    error |-> IF thrown THEN "audit_log insert failed"
                              ELSE IF outcome = "ok" THEN "" ELSE outcome,
                    audit |-> AuditWritten(entries, insert)]
        /\ UNCHANGED <<limiter, browser, inflight, now, ticks, user_oauth_providers, tenants, users,
                       email_verification_tokens, password_reset_tokens, gateway_tokens>>

LoginWithEmailUnder ==
    \E email \in Emails, password \in Passwords, insert \in AuditInserts :
        loginWithEmailUnder(email, password, insert)

\* The audit_log row exchangeForGatewayToken writes after its INSERT.
ExchangeAudit(accessToken, gatewayToken) ==
    IF ExchangeOutcome(accessToken, gatewayToken) = "ok"
    THEN {AuditEntry("gateway_token.created", "success",
                     Some(accessToken.payload.sub), NULL)}
    ELSE {}

exchangeForGatewayTokenUnder(accessToken, gatewayToken, insert) ==
    LET outcome == ExchangeOutcome(accessToken, gatewayToken)
        entries == ExchangeAudit(accessToken, gatewayToken)
        thrown == AuditThrows(entries, insert)
    IN  /\ Len(gateway_tokens) < MaxGatewayTokens
        /\ gateway_tokens' =
               IF outcome = "ok"
               THEN Append(gateway_tokens, GatewayRow(gatewayToken, accessToken.payload))
               ELSE gateway_tokens
        /\ last' = [op |-> "exchangeForGatewayToken", token |-> accessToken,
                    gatewayToken |-> gatewayToken, insert |-> insert,
                    ok |-> (outcome = "ok" /\ ~thrown),
                    error |-> IF thrown THEN "audit_log insert failed"
                              ELSE IF outcome = "ok" THEN "" ELSE outcome,
                    audit |-> AuditWritten(entries, insert)]
        /\ UNCHANGED <<limiter, browser, inflight, now, ticks, user_oauth_providers, tenants, users, user_sessions,
                       email_verification_tokens, password_reset_tokens, issued>>

ExchangeForGatewayTokenUnder ==
    \E token \in PresentableTokens,
       gatewayToken \in RandomDraws({ g.token : g \in Rows(gateway_tokens) }),
       insert \in AuditInserts :
        exchangeForGatewayTokenUnder(token, gatewayToken, insert)

\* --------------------------------------------------------- validateGatewayToken
\* Faulty variant: the query without its revoked_at condition.
GatewayRows_IgnoresRevoked(token) ==
    { g \in Rows(gateway_tokens) :
        /\ g.token = token
        /\ g.expires_at > now
        /\ \E u \in Rows(users) : u.id = g.user_id }

\* The rows of the gateway_tokens/users join that the query selects.
GatewayRows(token) ==
    { g \in Rows(gateway_tokens) :
        /\ g.token = token
        /\ g.expires_at > now
        /\ g.revoked_at = NULL
        /\ \E u \in Rows(users) : u.id = g.user_id }

\* NULL for null, else the one result object.
validateGatewayTokenResult(token) ==
    LET rows == GatewayRows(token)
        row == CHOOSE g \in rows : TRUE
    IN  IF rows = {} THEN NULL
        ELSE Some([userId |-> row.user_id, tenantId |-> row.tenant_id,
                   email |-> UserById(row.user_id).email])

\* What a client can put into auth.token of a connect message, beside the
\* values exchangeForGatewayToken can mint.
StaticPlain == Str(12, "other", 1)
StaticHex == Str(HexLen, "lowerhex", 0)
WrongPlain == Str(12, "other", 2)
EmptyStr == Str(0, "other", 0)
PresentedValues ==
    RandomHexValues \cup {StaticPlain, StaticHex, WrongPlain, EmptyStr}

validateGatewayToken(token) ==
    /\ last' = [op |-> "validateGatewayToken", value |-> token,
                result |-> validateGatewayTokenResult(token)]
    /\ UNCHANGED <<tables, limiter, browser, inflight, now, ticks, issued>>

ValidateGatewayToken == \E token \in PresentedValues : validateGatewayToken(token)

\* ------------------------------------------------------- gateway token revocation
\* UPDATE gateway_tokens SET revoked_at = NOW() WHERE token = $1
revokeGatewayToken(token) ==
    /\ gateway_tokens' =
           [i \in 1..Len(gateway_tokens) |->
               IF gateway_tokens[i].token = token
               THEN [gateway_tokens[i] EXCEPT !.revoked_at = Some(now)]
               ELSE gateway_tokens[i]]
    /\ last' = [op |-> "revokeGatewayToken", value |-> token]
    /\ UNCHANGED <<limiter, browser, inflight, now, ticks, user_oauth_providers, tenants, users, user_sessions,
                   email_verification_tokens, password_reset_tokens, issued>>

RevokeGatewayToken == \E g \in Rows(gateway_tokens) : revokeGatewayToken(g.token)

\* UPDATE gateway_tokens SET revoked_at = NOW() WHERE user_id = $1
revokeUserGatewayTokens(userId) ==
    /\ gateway_tokens' =
           [i \in 1..Len(gateway_tokens) |->
               IF gateway_tokens[i].user_id = userId
               THEN [gateway_tokens[i] EXCEPT !.revoked_at = Some(now)]
               ELSE gateway_tokens[i]]
    /\ last' = [op |-> "revokeUserGatewayTokens", user_id |-> userId]
    /\ UNCHANGED <<limiter, browser, inflight, now, ticks, user_oauth_providers, tenants, users, user_sessions,
                   email_verification_tokens, password_reset_tokens, issued>>

RevokeUserGatewayTokens == \E u \in Rows(users) : revokeUserGatewayTokens(u.id)

\* ------------------------------------------------------ authorizeGatewayConnect
\* The gateway's resolved auth configuration: its mode and its static token.
GatewayAuth(mode, token) == [mode |-> mode, token |-> token]
GatewayAuthConfigs ==
    { GatewayAuth("token", StaticPlain), GatewayAuth("token", EmptyStr),
      GatewayAuth("password", EmptyStr) }

\* Faulty variant: the length of the 32 random bytes instead of their hex form.
isGatewayTokenShape_ByteLength(value) ==
    /\ value.len = HexLen \div 2
    /\ value.cs \in {"lowerhex", "upperhex"}

\* connectAuth.token.length === 64 && /^[0-9a-f]+$/i.test(connectAuth.token)
isGatewayTokenShape(value) ==
    /\ value.len = HexLen
    /\ value.cs \in {"lowerhex", "upperhex"}

\* !token: the empty (or absent) string.
isMissing(value) == value.len = 0

\* Constant-time string comparison: equal exactly when the strings are.
safeEqual(a, b) == a = b

\* The static path: the presented value against the configured secret.
\* Faulty variant: a comparison that stops at the lengths.
StaticCheck_LengthOnly(value, auth) == value.len = auth.token.len

StaticCheck(value, auth) == safeEqual(value, auth.token)

\* The dynamic path: new AuthService().validateGatewayToken(token) inside the
\* try block.  `lookup` is "throws" when the store is not initialized, the
\* query fails or the service cannot be constructed: the catch swallows it.
\* Faulty variant: a failed lookup taken for a found token.
DynamicLookup_FailsOpen(value, lookup) ==
    IF lookup = "throws" THEN Some([email |-> EmptyStr])
    ELSE validateGatewayTokenResult(value)

DynamicLookup(value, lookup) ==
    IF lookup = "throws" THEN NULL ELSE validateGatewayTokenResult(value)

authorizeGatewayConnectResult(auth, value, lookup) ==
    IF auth.mode = "token"
    THEN IF isMissing(auth.token) THEN [ok |-> FALSE, reason |-> "token_missing_config"]
         ELSE IF isMissing(value) THEN [ok |-> FALSE, reason |-> "token_missing"]
         ELSE IF /\ isGatewayTokenShape(value)
                 /\ DynamicLookup(value, lookup) # NULL
              THEN [ok |-> TRUE, method |-> "token",
                    user |-> { r.email : r \in DynamicLookup(value, lookup) }]
         ELSE IF ~StaticCheck(value, auth)
              THEN [ok |-> FALSE, reason |-> "token_mismatch"]
         ELSE [ok |-> TRUE, method |-> "token", user |-> NULL]
    ELSE [ok |-> FALSE, reason |-> "unauthorized"]

authorizeGatewayConnect(auth, value, lookup) ==
    /\ last' = [op |-> "authorizeGatewayConnect", auth |-> auth, value |-> value,
                lookup |-> lookup,
                result |-> authorizeGatewayConnectResult(auth, value, lookup)]
    /\ UNCHANGED <<tables, limiter, browser, inflight, now, ticks, issued>>

AuthorizeGatewayConnect ==
    \E auth \in GatewayAuthConfigs, value \in PresentedValues,
       lookup \in {"ok", "throws"} :
        authorizeGatewayConnect(auth, value, lookup)

\* ------------------------------------------------------------ TokenService
\* A service is built, mints a token of one class for a user, and after
\* `delay` seconds hands it to one of its two verifiers.
tokenRoundTrip(a, r, user, minted, verifier, delay) ==
    LET svc == TokenService(a, r)
        token == IF minted = "access" THEN mintAccessToken(svc, user, now)
                 ELSE mintRefreshToken(svc, user, now)
        result == IF verifier = "access"
                  THEN decodeAccessToken(svc, token, now + delay)
                  ELSE decodeRefreshToken(svc, token, now + delay)
    IN  /\ delay > 0 => ticks < MaxTicks
        /\ now' = now + delay
        /\ ticks' = IF delay > 0 THEN ticks + 1 ELSE ticks
        /\ last' = IF ~TokenServiceConfigured(svc)
                   THEN [op |-> "TokenService", ok |-> FALSE,
                         error |-> "Token secrets not configured"]
                   ELSE [op |-> "TokenService", ok |-> TRUE, error |-> "",
                         svc |-> svc, user |-> user, minted |-> minted,
                         token |-> token, verifier |-> verifier,
                         delay |-> delay, result |-> result]
        /\ UNCHANGED <<tables, limiter, browser, inflight, issued>>

TokenRoundTrip ==
    \E a, r \in TokenSecrets, user \in TokenUsers,
       minted, verifier \in {"access", "refresh"},
       delay \in {0, 1, accessTokenTTL, refreshTokenTTL} :
        tokenRoundTrip(a, r, user, minted, verifier, delay)

\* --------------------------------------------------------- AuthRateLimiter
\* The cache this.redis talks to.
Cache == CHOOSE f \in redis : TRUE

\* A key is there while it has been set and its expiry, if any, is ahead.
KeyLive(cache, key) ==
    /\ cache[key].count > 0
    /\ \A e \in cache[key].expire_at : e > now

\* INCR key: one atomic command; a key that is not there counts from 0 and
\* has no expiry.
Incr(cache, key) ==
    [cache EXCEPT ![key] = IF KeyLive(cache, key)
                           THEN [@ EXCEPT !.count = @ + 1]
                           ELSE [count |-> 1, expire_at |-> NULL]]

\* EXPIRE key seconds: sets the expiry of a key that is there.
Expire(cache, key, seconds) ==
    IF KeyLive(cache, key)
    THEN [cache EXCEPT ![key].expire_at = Some(now + seconds)]
    ELSE cache

\* The keys the cache has ever been asked to count, and the INCRs they hold.
KeysInUse(cache) == { k \in RateKeys : cache[k].count > 0 }

RECURSIVE SumCounts(_, _)
SumCounts(cache, keys) ==
    IF keys = {} THEN 0
    ELSE LET k == CHOOSE x \in keys : TRUE
         IN  cache[k].count + SumCounts(cache, keys \ {k})

\* Faulty variant: the comparison made strict.
WithinLimit_Strict(kind, current) == current < RateLimits[kind].limit

\* return current <= limit
WithinLimit(kind, current) == current <= RateLimits[kind].limit

\* The outcome of a cache command: it is carried out, or the promise rejects
\* (connection lost, retries exhausted).
CacheHealths == {"ok", "fails"}

\* A check up to and including its INCR. With this.redis null it returns true
\* at once; a rejected INCR is not caught and rejects the check.
checkBegin(c, kind, identifier, health) ==
    LET key == RateKey(kind, identifier)
        cache == Incr(Cache, key)
    IN  /\ checks[c].pc = "idle"
        /\ IF redis = NULL
           THEN /\ last' = [op |-> "checkRateLimit", kind |-> kind,
                            id |-> identifier, connected |-> FALSE, current |-> 0,
                            result |-> "allowed"]
                /\ UNCHANGED limiter
           ELSE IF health = "fails"
           THEN /\ last' = [op |-> "checkRateLimit", kind |-> kind,
                            id |-> identifier, connected |-> TRUE, current |-> 0,
                            result |-> "throws"]
                /\ UNCHANGED limiter
           ELSE /\ SumCounts(Cache, KeysInUse(Cache)) < MaxChecks
                /\ key \in KeysInUse(Cache) \/ Cardinality(KeysInUse(Cache)) < MaxKeys
                /\ redis' = Some(cache)
                /\ checks' = [checks EXCEPT ![c] =
                                  [pc |-> "incremented", kind |-> kind,
                                   id |-> identifier, current |-> cache[key].count]]
                /\ last' = [op |-> "incr"]
        /\ UNCHANGED <<tables, inflight, browser, now, ticks, issued>>

\* The rest of the check: EXPIRE when this INCR made the key, then the
\* comparison. A rejected EXPIRE is not caught either.
checkEnd(c, health) ==
    LET call == checks[c]
        key == RateKey(call.kind, call.id)
        first == call.current = 1
    IN  /\ call.pc = "incremented"
        /\ checks' = [checks EXCEPT ![c] = Idle]
        /\ IF first /\ health = "fails"
           THEN /\ last' = [op |-> "checkRateLimit", kind |-> call.kind,
                            id |-> call.id, connected |-> TRUE,
                            current |-> call.current, result |-> "throws"]
                /\ UNCHANGED redis
           ELSE /\ redis' = IF first
                            THEN Some(Expire(Cache, key, RateLimits[call.kind].window))
                            ELSE redis
                /\ last' = [op |-> "checkRateLimit", kind |-> call.kind,
                            id |-> call.id, connected |-> TRUE,
                            current |-> call.current,
                            result |-> IF WithinLimit(call.kind, call.current)
                                       THEN "allowed" ELSE "denied"]
        /\ UNCHANGED <<tables, inflight, browser, now, ticks, issued>>

\* Checks against a cache that answers every command.
CheckBegin ==
    \E c \in Clients, kind \in RateKinds, identifier \in RateIdentifiers :
        checkBegin(c, kind, identifier, "ok")

CheckEnd == \E c \in Clients : checkEnd(c, "ok")

\* Checks against a cache whose commands can fail, made one at a time.
CheckBeginUnder ==
    \E kind \in RateKinds, identifier \in RateIdentifiers, health \in CacheHealths :
        checkBegin(1, kind, identifier, health)

CheckEndUnder == \E health \in CacheHealths : checkEnd(1, health)

\* ------------------------------------------------- requests, statement by statement
\* Callers whose requests the server handles at once: each awaited statement
\* of a handler is a step, and steps of different requests interleave.
Running == { c \in Clients : inflight[c].pc \notin {"idle", "done"} }
CanBegin(c) == inflight[c].pc \in {"idle", "done"}

\* Caller c's request becomes `request`; the requests under way and c's
\* note that they overlap.
Begun(c, request) ==
    [d \in Clients |->
        IF d = c THEN [request EXCEPT !.peers = Running \ {c}]
        ELSE IF d \in Running THEN [inflight[d] EXCEPT !.peers = @ \cup {c}]
        ELSE inflight[d]]

\* Caller c's request moves on to `pc`, or ends: what a request returned is
\* kept while it says something about the requests it overlapped with (it
\* succeeded, and there were some).
Moved(c, pc) == [inflight EXCEPT ![c].pc = pc]
Ended(c, ok, error) ==
    [inflight EXCEPT ![c] =
        IF ok /\ @.peers # {}
        THEN [pc |-> "done", op |-> @.op, key |-> @.key, ok |-> ok,
              error |-> error, peers |-> @.peers]
        ELSE Idle]

\* resetPassword: the token SELECT and the password check.
resetPasswordSelect(c, token, newPassword) ==
    LET rows == ResetRows(token)
        resetToken == CHOOSE r \in rows : TRUE
        request == [pc |-> "selected", op |-> "resetPassword", key |-> token,
                    newPassword |-> newPassword,
                    row |-> IF rows = {} THEN NULL ELSE Some(resetToken),
                    peers |-> {}]
        error == IF rows = {} THEN "Invalid or expired reset token"
                 ELSE IF ~isValidPassword(newPassword)
                 THEN "Password must be at least 8 characters"
                 ELSE ""
    IN  /\ CanBegin(c)
        /\ inflight' = IF error = "" THEN Begun(c, request)
                       ELSE [inflight EXCEPT ![c] = Idle]
        /\ last' = [op |-> "resetPassword.select", key |-> token, error |-> error]
        /\ UNCHANGED <<tables, limiter, browser, now, ticks, issued>>

\* UPDATE users SET password_hash = ... WHERE id = <the token's user>
resetPasswordUpdateUser(c) ==
    LET request == inflight[c]
        resetToken == CHOOSE r \in request.row : TRUE
    IN  /\ request.pc = "selected"
        /\ request.op = "resetPassword"
        /\ users' = [i \in 1..Len(users) |->
                        IF users[i].id = resetToken.user_id
                        THEN [users[i] EXCEPT
                                 !.password_hash = Some(bcryptHash(request.newPassword))]
                        ELSE users[i]]
        /\ inflight' = Moved(c, "userUpdated")
        /\ last' = [op |-> "resetPassword.updateUser"]
        /\ UNCHANGED <<limiter, browser, now, ticks, user_oauth_providers, tenants, user_sessions,
                       email_verification_tokens, password_reset_tokens, gateway_tokens,
                       issued>>

\* UPDATE password_reset_tokens SET used_at = NOW() WHERE id = <the token's>
resetPasswordMarkUsed(c) ==
    LET request == inflight[c]
        resetToken == CHOOSE r \in request.row : TRUE
    IN  /\ request.pc = "userUpdated"
        /\ request.op = "resetPassword"
        /\ password_reset_tokens' =
               [i \in 1..Len(password_reset_tokens) |->
                   IF password_reset_tokens[i].id = resetToken.id
                   THEN [password_reset_tokens[i] EXCEPT !.used_at = Some(now)]
                   ELSE password_reset_tokens[i]]
        /\ inflight' = Moved(c, "tokenMarked")
        /\ last' = [op |-> "resetPassword.markUsed"]
        /\ UNCHANGED <<limiter, browser, now, ticks, user_oauth_providers, tenants, users,
                       user_sessions, email_verification_tokens, gateway_tokens, issued>>

\* this.logoutAll(<the token's user>), and the return.
resetPasswordLogoutAll(c) ==
    LET request == inflight[c]
        resetToken == CHOOSE r \in request.row : TRUE
    IN  /\ request.pc = "tokenMarked"
        /\ request.op = "resetPassword"
        /\ user_sessions' = LogoutAllSessions(resetToken.user_id)
        /\ inflight' = Ended(c, TRUE, "")
        /\ last' = [op |-> "resetPassword.logoutAll"]
        /\ UNCHANGED <<limiter, browser, now, ticks, user_oauth_providers, tenants, users,
                       email_verification_tokens, password_reset_tokens, gateway_tokens,
                       issued>>

\* verifyEmail: the token SELECT.
verifyEmailSelect(c, token) ==
    LET rows == VerificationRows(token)
        verification == CHOOSE v \in rows : TRUE
    IN  /\ CanBegin(c)
        /\ inflight' =
               IF rows = {}
               THEN [inflight EXCEPT ![c] = Idle]
               ELSE Begun(c, [pc |-> "selected", op |-> "verifyEmail", key |-> token,
                              row |-> Some(verification), peers |-> {}])
        /\ last' = [op |-> "verifyEmail.select", key |-> token,
                    error |-> IF rows = {} THEN "Invalid or expired verification token"
                              ELSE ""]
        /\ UNCHANGED <<tables, limiter, browser, now, ticks, issued>>

\* UPDATE users SET email_verified = true ... WHERE id = <the token's user>
verifyEmailUpdateUser(c) ==
    LET request == inflight[c]
        verification == CHOOSE v \in request.row : TRUE
    IN  /\ request.pc = "selected"
        /\ request.op = "verifyEmail"
        /\ users' = [i \in 1..Len(users) |->
                        IF users[i].id = verification.user_id
                        THEN [users[i] EXCEPT !.email_verified = TRUE]
                        ELSE users[i]]
        /\ inflight' = Moved(c, "userUpdated")
        /\ last' = [op |-> "verifyEmail.updateUser"]
        /\ UNCHANGED <<limiter, browser, now, ticks, user_oauth_providers, tenants, user_sessions,
                       email_verification_tokens, password_reset_tokens, gateway_tokens,
                       issued>>

\* UPDATE email_verification_tokens SET used_at = NOW() WHERE id = <the
\* token's>, the SELECT of the user, and the return.
verifyEmailMarkUsed(c) ==
    LET request == inflight[c]
        verification == CHOOSE v \in request.row : TRUE
    IN  /\ request.pc = "userUpdated"
        /\ request.op = "verifyEmail"
        /\ email_verification_tokens' =
               [i \in 1..Len(email_verification_tokens) |->
                   IF email_verification_tokens[i].id = verification.id
                   THEN [email_verification_tokens[i] EXCEPT !.used_at = Some(now)]
                   ELSE email_verification_tokens[i]]
        /\ inflight' = Ended(c, TRUE, "")
        /\ last' = [op |-> "verifyEmail.markUsed"]
        /\ UNCHANGED <<limiter, browser, now, ticks, user_oauth_providers, tenants, users,
                       user_sessions, password_reset_tokens, gateway_tokens, issued>>

\* refreshAccessToken: the session SELECT and the minting of the new pair.
refreshSelect(c, refreshToken) ==
    LET rows == RefreshRows(refreshToken)
        session == CHOOSE r \in rows : TRUE
    IN  /\ CanBegin(c)
        /\ inflight' =
               IF rows = {}
               THEN [inflight EXCEPT ![c] = Idle]
               ELSE Begun(c, [pc |-> "selected", op |-> "refreshAccessToken",
                              key |-> refreshToken, session |-> Some(session),
                              tokens |-> SessionTokens(session), peers |-> {}])
        /\ last' = [op |-> "refreshAccessToken.select", key |-> refreshToken,
                    error |-> IF rows = {} THEN "Invalid or expired refresh token"
                              ELSE ""]
        /\ UNCHANGED <<tables, limiter, browser, now, ticks, issued>>

\* UPDATE user_sessions SET <the new hashes> WHERE id = <session.id>, and
\* the return of the new pair.
refreshUpdate(c) ==
    LET request == inflight[c]
        session == CHOOSE r \in request.session : TRUE
        updated == RotateSessions(session.id, request.tokens)
    IN  /\ request.pc = "selected"
        /\ request.op = "refreshAccessToken"
        /\ IF SessionsUnique(updated)
           THEN /\ user_sessions' = updated
                /\ issued' = issued \cup {request.tokens.accessToken,
                                          request.tokens.refreshToken}
                /\ inflight' = Ended(c, TRUE, "")
                /\ last' = [op |-> "refreshAccessToken.update", ok |-> TRUE,
                            tokens |-> request.tokens]
           ELSE /\ UNCHANGED <<user_sessions, issued>>
                /\ inflight' = Ended(c, FALSE, "duplicate key")
                /\ last' = [op |-> "refreshAccessToken.update", ok |-> FALSE]
        /\ UNCHANGED <<limiter, browser, now, ticks, user_oauth_providers, tenants, users,
                       email_verification_tokens, password_reset_tokens, gateway_tokens>>

\* Transactions (READ COMMITTED): the rows a request has inserted since its
\* BEGIN are in `pending`, unseen by the others, until COMMIT adds them to
\* the tables or ROLLBACK drops them. An INSERT whose unique key another open
\* transaction has inserted waits for that transaction to end.
Pending(c, statement) ==
    /\ c \in Running
    /\ "pending" \in DOMAIN inflight[c]
    /\ statement \in inflight[c].pending

\* Another open transaction holds an uncommitted users row with this email.
UserInsertWaits(c, email) ==
    \E d \in Clients \ {c} :
        Pending(d, "INSERT users") /\ inflight[d].userEmail = toLowerCase(email)

\* Faulty variant: users without its UNIQUE constraint on email.
UserInsertViolates_NoConstraint(email) == FALSE

\* users.email is UNIQUE: the INSERT fails when a committed row has the email.
UserInsertViolates(email) == UsersByEmail(toLowerCase(email)) # {}

\* Requests of an operation that may still add a row.
Open(op) == { c \in Running : inflight[c].op = op }

\* registerWithEmail: the validations and the SELECT of the email.
registerCheck(c, email, password, token) ==
    LET error == IF ~isValidEmail(email) THEN "Invalid email format"
                 ELSE IF ~isValidPassword(password)
                 THEN "Password must be at least 8 characters"
                 ELSE IF UsersByEmail(toLowerCase(email)) # {}
                 THEN "Email already registered"
                 ELSE ""
    IN  /\ CanBegin(c)
        /\ Len(users) + Cardinality(Running) < MaxUsers
        /\ Len(user_sessions) + Cardinality(Running) < MaxSessions
        /\ inflight' =
               IF error # ""
               THEN [inflight EXCEPT ![c] = Idle]
               ELSE Begun(c, [pc |-> "checked", op |-> "registerWithEmail",
                              key |-> toLowerCase(email), email |-> email,
                              userEmail |-> toLowerCase(email),
                              password |-> password, token |-> token,
                              pending |-> {}, user |-> NULL, peers |-> {}])
        /\ last' = [op |-> "registerWithEmail.check", key |-> toLowerCase(email),
                    error |-> error]
        /\ UNCHANGED <<tables, limiter, browser, now, ticks, issued>>

\* BEGIN and INSERT INTO tenants (the slug ends in random digits).
registerInsertTenant(c) ==
    /\ inflight[c].pc = "checked"
    /\ inflight[c].op = "registerWithEmail"
    /\ inflight' = [inflight EXCEPT ![c].pc = "tenantInserted",
                                    ![c].pending = {"INSERT tenants"}]
    /\ last' = [op |-> "registerWithEmail.insertTenant"]
    /\ UNCHANGED <<tables, limiter, browser, now, ticks, issued>>

\* INSERT INTO users; on a unique violation the catch block's ROLLBACK and
\* the rethrow.
registerInsertUser(c) ==
    LET request == inflight[c]
    IN  /\ request.pc = "tenantInserted"
        /\ request.op = "registerWithEmail"
        /\ ~UserInsertWaits(c, request.email)
        /\ IF UserInsertViolates(request.email)
           THEN /\ inflight' = Ended(c, FALSE, "duplicate key")
                /\ last' = [op |-> "registerWithEmail.insertUser",
                            key |-> request.key, error |-> "duplicate key",
                            rolledBack |-> request.pending, peers |-> request.peers]
           ELSE /\ inflight' = [inflight EXCEPT
                                   ![c].pc = "userInserted",
                                   ![c].pending = @ \cup {"INSERT users"}]
                /\ last' = [op |-> "registerWithEmail.insertUser",
                            key |-> request.key, error |-> "",
                            rolledBack |-> {}, peers |-> request.peers]
        /\ UNCHANGED <<tables, limiter, browser, now, ticks, issued>>

\* The verification tokens stored or inserted by an open transaction.
VerificationTokensSeen ==
    { v.token : v \in Rows(email_verification_tokens) }
        \cup { inflight[d].token : d \in Open("registerWithEmail") }

\* INSERT INTO email_verification_tokens and COMMIT: the three rows reach
\* the tables together; a token that is stored already (token is UNIQUE) ends
\* the request in the catch block's ROLLBACK.
registerCommit(c) ==
    LET request == inflight[c]
        tenant == TenantRow(request.email)
        user == UserRow(tenant, request.email, request.password)
        violates == \E v \in Rows(email_verification_tokens) : v.token = request.token
    IN  /\ request.pc = "userInserted"
        /\ request.op = "registerWithEmail"
        /\ IF violates
           THEN /\ inflight' = Ended(c, FALSE, "duplicate key")
                /\ last' = [op |-> "registerWithEmail.insertToken",
                            key |-> request.key, error |-> "duplicate key",
                            rolledBack |-> request.pending, peers |-> request.peers]
                /\ UNCHANGED <<tenants, users, email_verification_tokens>>
           ELSE /\ tenants' = Append(tenants, tenant)
                /\ users' = Append(users, user)
                /\ email_verification_tokens' =
                       Append(email_verification_tokens,
                              VerificationRow(user, request.token, request.email))
                /\ inflight' = [inflight EXCEPT ![c].pc = "committed",
                                                ![c].pending = {},
                                                ![c].user = Some(user)]
                /\ last' = [op |-> "registerWithEmail.commit", key |-> request.key,
                            error |-> "", rolledBack |-> {}, peers |-> request.peers]
        /\ UNCHANGED <<limiter, browser, now, ticks, user_oauth_providers, user_sessions,
                       password_reset_tokens, gateway_tokens, issued>>

\* createSession, the audit row and the return.
registerCreateSession(c) ==
    LET request == inflight[c]
        user == CHOOSE u \in request.user : TRUE
    IN  /\ request.pc = "committed"
        /\ request.op = "registerWithEmail"
        /\ IF SessionInsertOK(SessionRow(user))
           THEN /\ user_sessions' = Append(user_sessions, SessionRow(user))
                /\ issued' = issued \cup {SessionTokens(user).accessToken,
                                          SessionTokens(user).refreshToken}
                /\ inflight' = Ended(c, TRUE, "")
                /\ last' = [op |-> "registerWithEmail.createSession", ok |-> TRUE,
                            key |-> request.key]
           ELSE /\ UNCHANGED <<user_sessions, issued>>
                /\ inflight' = Ended(c, FALSE, "duplicate key")
                /\ last' = [op |-> "registerWithEmail.createSession", ok |-> FALSE,
                            key |-> request.key]
        /\ UNCHANGED <<limiter, browser, now, ticks, user_oauth_providers, tenants, users,
                       email_verification_tokens, password_reset_tokens, gateway_tokens>>

RegisterCheck ==
    \E c \in Clients, email \in Emails, password \in Passwords,
       token \in RandomDraws(VerificationTokensSeen) :
        registerCheck(c, email, password, token)
RegisterInsertTenant == \E c \in Clients : registerInsertTenant(c)
RegisterInsertUser == \E c \in Clients : registerInsertUser(c)
RegisterCommit == \E c \in Clients : registerCommit(c)
RegisterCreateSession == \E c \in Clients : registerCreateSession(c)

\* Another open transaction holds an uncommitted link of this pair.
LinkInsertWaits(c, provider, providerUserId) ==
    \E d \in Clients \ {c} :
        /\ Pending(d, "INSERT user_oauth_providers")
        /\ inflight[d].key = <<provider, providerUserId>>

\* Faulty variant: user_oauth_providers without UNIQUE(provider, provider_user_id).
LinkInsertViolates_NoConstraint(provider, providerUserId) == FALSE

\* UNIQUE(provider, provider_user_id): the INSERT fails when a committed link
\* has the pair.
LinkInsertViolates(provider, providerUserId) ==
    OAuthLinks(provider, providerUserId) # {}

\* registerWithOAuth: the two SELECTs before the transaction, and on the
\* login path the whole of loginExistingOAuthUser.
oauthCheck(c, provider, providerUserId, providerEmail) ==
    LET branch == OAuthBranch(provider, providerUserId, providerEmail)
        user == OAuthUser(provider, providerUserId, providerEmail)
        email == OAuthEmail(provider, providerUserId, providerEmail)
    IN  /\ CanBegin(c)
        /\ branch = "login" => Len(user_sessions) < MaxSessions
        /\ branch = "create" =>
               Len(users) + Cardinality({ d \in Open("registerWithOAuth") :
                                            inflight[d].branch = "create" }) < MaxUsers
        /\ IF branch = "login"
           THEN /\ inflight' = [inflight EXCEPT ![c] = Idle]
                /\ IF SessionInsertOK(SessionRow(user))
                   THEN /\ user_sessions' = Append(user_sessions, SessionRow(user))
                        /\ issued' = issued \cup {SessionTokens(user).accessToken,
                                                  SessionTokens(user).refreshToken}
                   ELSE UNCHANGED <<user_sessions, issued>>
                /\ last' = [op |-> "registerWithOAuth.login",
                            key |-> <<provider, providerUserId>>,
                            ok |-> SessionInsertOK(SessionRow(user)),
                            error |-> IF SessionInsertOK(SessionRow(user))
                                      THEN "" ELSE "duplicate key"]
           ELSE /\ inflight' =
                       Begun(c, [pc |-> "checked", op |-> "registerWithOAuth",
                                 key |-> <<provider, providerUserId>>,
                                 providerEmail |-> providerEmail,
                                 branch |-> branch,
                                 existingUser |-> IF branch = "link"
                                                  THEN Some(user) ELSE NULL,
                                 userEmail |-> toLowerCase(email),
                                 pending |-> {}, user |-> NULL, peers |-> {}])
                /\ last' = [op |-> "registerWithOAuth.check",
                            key |-> <<provider, providerUserId>>,
                            ok |-> TRUE, error |-> ""]
                /\ UNCHANGED <<user_sessions, issued>>
        /\ UNCHANGED <<limiter, browser, now, ticks, tenants, users, user_oauth_providers,
                       email_verification_tokens, password_reset_tokens,
                       gateway_tokens>>

\* BEGIN, then on the create path INSERT INTO tenants and INSERT INTO users
\* (the link path only reads the tenant); a unique violation ends the request
\* in the catch block's ROLLBACK. The username column is left out: a second
\* UNIQUE column can only make more inserts fail.
oauthInsertUser(c) ==
    LET request == inflight[c]
    IN  /\ request.pc = "checked"
        /\ request.op = "registerWithOAuth"
        /\ request.branch = "create" => ~UserInsertWaits(c, request.userEmail)
        /\ IF request.branch = "create" /\ UserInsertViolates(request.userEmail)
           THEN /\ inflight' = Ended(c, FALSE, "duplicate key")
                /\ last' = [op |-> "registerWithOAuth.insertUser", key |-> request.key,
                            error |-> "duplicate key", branch |-> request.branch,
                            rolledBack |-> {"INSERT tenants"},
                            peers |-> request.peers]
           ELSE /\ inflight' = [inflight EXCEPT
                                   ![c].pc = "userInserted",
                                   ![c].pending =
                                       IF request.branch = "create"
                                       THEN {"INSERT tenants", "INSERT users"}
                                       ELSE {}]
                /\ last' = [op |-> "registerWithOAuth.insertUser", key |-> request.key,
                            error |-> "", branch |-> request.branch,
                            rolledBack |-> {}, peers |-> request.peers]
        /\ UNCHANGED <<tables, limiter, browser, now, ticks, issued>>

\* INSERT INTO user_oauth_providers.
oauthInsertLink(c) ==
    LET request == inflight[c]
    IN  /\ request.pc = "userInserted"
        /\ request.op = "registerWithOAuth"
        /\ ~LinkInsertWaits(c, request.key[1], request.key[2])
        /\ IF LinkInsertViolates(request.key[1], request.key[2])
           THEN /\ inflight' = Ended(c, FALSE, "duplicate key")
                /\ last' = [op |-> "registerWithOAuth.insertLink", key |-> request.key,
                            error |-> "duplicate key", branch |-> request.branch,
                            rolledBack |-> request.pending, peers |-> request.peers]
           ELSE /\ inflight' = [inflight EXCEPT
                                   ![c].pc = "linkInserted",
                                   ![c].pending = @ \cup {"INSERT user_oauth_providers"}]
                /\ last' = [op |-> "registerWithOAuth.insertLink", key |-> request.key,
                            error |-> "", branch |-> request.branch,
                            rolledBack |-> {}, peers |-> request.peers]
        /\ UNCHANGED <<tables, limiter, browser, now, ticks, issued>>

\* COMMIT: the rows of the transaction reach the tables together.
oauthCommit(c) ==
    LET request == inflight[c]
        email == IF request.providerEmail = NULL
                 THEN OAuthLocalEmail(request.key[1], request.key[2])
                 ELSE CHOOSE e \in request.providerEmail : TRUE
        tenant == TenantRow(email)
        user == IF request.branch = "link"
                THEN CHOOSE u \in request.existingUser : TRUE
                ELSE OAuthUserRow(tenant, email, request.providerEmail)
    IN  /\ request.pc = "linkInserted"
        /\ request.op = "registerWithOAuth"
        /\ Len(user_oauth_providers) < MaxLinks
        /\ tenants' = IF request.branch = "create"
                      THEN Append(tenants, tenant) ELSE tenants
        /\ users' = IF request.branch = "create" THEN Append(users, user) ELSE users
        /\ user_oauth_providers' =
               Append(user_oauth_providers,
                      OAuthLinkRow(user, request.key[1], request.key[2],
                                   request.providerEmail))
        /\ inflight' = [inflight EXCEPT ![c].pc = "committed", ![c].pending = {},
                                        ![c].user = Some(user)]
        /\ last' = [op |-> "registerWithOAuth.commit", key |-> request.key,
                    error |-> "", branch |-> request.branch,
                    rolledBack |-> {}, peers |-> request.peers]
        /\ UNCHANGED <<limiter, browser, now, ticks, user_sessions, email_verification_tokens,
                       password_reset_tokens, gateway_tokens, issued>>

\* createSession, the audit row and the return.
oauthCreateSession(c) ==
    LET request == inflight[c]
        user == CHOOSE u \in request.user : TRUE
    IN  /\ request.pc = "committed"
        /\ request.op = "registerWithOAuth"
        /\ Len(user_sessions) < MaxSessions
        /\ IF SessionInsertOK(SessionRow(user))
           THEN /\ user_sessions' = Append(user_sessions, SessionRow(user))
                /\ issued' = issued \cup {SessionTokens(user).accessToken,
                                          SessionTokens(user).refreshToken}
                /\ inflight' = Ended(c, TRUE, "")
                /\ last' = [op |-> "registerWithOAuth.createSession", ok |-> TRUE,
                            key |-> request.key]
           ELSE /\ UNCHANGED <<user_sessions, issued>>
                /\ inflight' = Ended(c, FALSE, "duplicate key")
                /\ last' = [op |-> "registerWithOAuth.createSession", ok |-> FALSE,
                            key |-> request.key]
        /\ UNCHANGED <<limiter, browser, now, ticks, user_oauth_providers, tenants, users,
                       email_verification_tokens, password_reset_tokens, gateway_tokens>>

\* One provider is enough for two sign-ins to meet on a (provider, subject).
OAuthCheck ==
    \E c \in Clients, providerUserId \in ProviderUserIds,
       providerEmail \in ProviderEmails :
        oauthCheck(c, "google", providerUserId, providerEmail)
OAuthInsertUser == \E c \in Clients : oauthInsertUser(c)
OAuthInsertLink == \E c \in Clients : oauthInsertLink(c)
OAuthCommit == \E c \in Clients : oauthCommit(c)
OAuthCreateSession == \E c \in Clients : oauthCreateSession(c)

RefreshSelect == \E c \in Clients, token \in PresentableTokens : refreshSelect(c, token)
RefreshUpdate == \E c \in Clients : refreshUpdate(c)

ResetPasswordSelect ==
    \E c \in Clients, token \in RandomHexValues, newPassword \in Passwords :
        resetPasswordSelect(c, token, newPassword)
ResetPasswordUpdateUser == \E c \in Clients : resetPasswordUpdateUser(c)
ResetPasswordMarkUsed == \E c \in Clients : resetPasswordMarkUsed(c)
ResetPasswordLogoutAll == \E c \in Clients : resetPasswordLogoutAll(c)
VerifyEmailSelect ==
    \E c \in Clients, token \in RandomHexValues : verifyEmailSelect(c, token)
VerifyEmailUpdateUser == \E c \in Clients : verifyEmailUpdateUser(c)
VerifyEmailMarkUsed == \E c \in Clients : verifyEmailMarkUsed(c)

\* ------------------------------------------------- the browser's axios instance
\* A request URL by its path segments, and String.includes on it segment by
\* segment.
Urls ==
    { <<"auth", "me">>, <<"auth", "login">>, <<"auth", "register">>,
      <<"auth", "check-user">>, <<"auth", "oauth", "google", "callback">> }

includes(url, part) ==
    \E i \in 0..(Len(url) - Len(part)) : SubSeq(url, i + 1, i + Len(part)) = part

isAuthRequest(url) ==
    \/ includes(url, <<"auth", "login">>)
    \/ includes(url, <<"auth", "register">>)
    \/ includes(url, <<"auth", "check-user">>)
    \/ includes(url, <<"auth", "oauth">>)

\* Faulty variant: the interceptor without its _retry mark.
InterceptorRefreshes_NoRetryMark(status, retry, url) ==
    status = 401 /\ ~isAuthRequest(url)

\* error.response?.status === 401 && !originalRequest._retry && !isAuthRequest
InterceptorRefreshes(status, retry, url) ==
    status = 401 /\ ~retry /\ ~isAuthRequest(url)

\* The refresh calls of the interceptor that are under way.
Refreshing == { r \in RequestIds : requests[r].pc \in {"refreshing", "refreshed"} }

\* The catch block: both items removed, the page sent to /login.
ClearedStorage == [accessToken |-> NULL, refreshToken |-> NULL]

\* AuthPage keeps the token pair a login or a registration returned.
saveTokens ==
    /\ last.op \in {"registerWithEmail", "loginWithEmail"}
    /\ last.ok
    /\ localStorage' = [accessToken |-> Some(last.tokens.accessToken),
                        refreshToken |-> Some(last.tokens.refreshToken)]
    /\ last' = [op |-> "saveTokens"]
    /\ UNCHANGED <<tables, limiter, inflight, now, ticks, issued, location, requests>>

\* api(config): the request interceptor adds the stored access token.
send(r, url) ==
    /\ requests[r].pc = "idle"
    /\ requests' = [requests EXCEPT ![r] =
           [pc |-> "sent", url |-> url, _retry |-> FALSE,
            authorization |-> localStorage.accessToken,
            refreshToken |-> NULL, response |-> NULL,
            refreshes |-> 0, replays |-> 0, overlap |-> {},
            refresh |-> "none", result |-> "pending"]]
    /\ last' = [op |-> "api"]
    /\ UNCHANGED <<tables, limiter, inflight, now, ticks, issued, localStorage,
                   location>>

\* The response interceptor on the answer to a request or to its replay:
\* status 200 resolves; a 401 that qualifies marks the request and posts the
\* stored refresh token (or, with none stored, falls into the catch block);
\* any other error is rejected to the caller.
respond(r, status) ==
    LET request == requests[r]
    IN  /\ request.pc = "sent"
        /\ IF InterceptorRefreshes(status, request._retry, request.url)
           THEN IF localStorage.refreshToken = NULL
                THEN /\ localStorage' = ClearedStorage
                     /\ location' = "/login"
                     /\ requests' = [requests EXCEPT
                            ![r].pc = "returned", ![r]._retry = TRUE,
                            ![r].refresh = "failed",
                            ![r].result = "No refresh token"]
                ELSE /\ requests' =
                            [q \in RequestIds |->
                                IF q = r
                                THEN [request EXCEPT
                                         !.pc = "refreshing", !._retry = TRUE,
                                         !.refreshToken = localStorage.refreshToken,
                                         !.refreshes = @ + 1,
                                         !.overlap = @ \cup (Refreshing \ {r})]
                                ELSE IF q \in Refreshing
                                THEN [requests[q] EXCEPT !.overlap = @ \cup {r}]
                                ELSE requests[q]]
                     /\ UNCHANGED <<localStorage, location>>
           ELSE /\ requests' = [requests EXCEPT
                       ![r].pc = "returned",
                       ![r].result = IF status = 200 THEN "resolved" ELSE "401"]
                /\ UNCHANGED <<localStorage, location>>
        /\ last' = [op |-> "interceptor"]
        /\ UNCHANGED <<tables, limiter, inflight, now, ticks, issued>>

\* POST /auth/refresh for the interceptor's call: refreshAccessToken, whose
\* result is the body of a 200 and whose error makes a 401.
refreshServe(r) ==
    /\ requests[r].pc = "refreshing"
    /\ refreshAccessToken(CHOOSE t \in requests[r].refreshToken : TRUE)
    /\ requests' = [requests EXCEPT
           ![r].pc = "refreshed",
           ![r].response = IF last'.ok THEN Some(last'.tokens) ELSE NULL]
    /\ UNCHANGED <<localStorage, location>>

\* The interceptor after its refresh call: the new pair is stored and the
\* request replayed with the new access token, or the catch block runs.
refreshContinue(r) ==
    LET request == requests[r]
        data == CHOOSE d \in request.response : TRUE
    IN  /\ request.pc = "refreshed"
        /\ IF request.response # NULL
           THEN /\ localStorage' = [accessToken |-> Some(data.accessToken),
                                    refreshToken |-> Some(data.refreshToken)]
                /\ requests' = [requests EXCEPT
                       ![r].pc = "sent",
                       ![r].authorization = Some(data.accessToken),
                       ![r].replays = @ + 1,
                       ![r].refresh = "ok"]
                /\ UNCHANGED location
           ELSE /\ localStorage' = ClearedStorage
                /\ location' = "/login"
                /\ requests' = [requests EXCEPT
                       ![r].pc = "returned", ![r].refresh = "failed",
                       ![r].result = "refresh failed"]
        /\ last' = [op |-> "interceptor"]
        /\ UNCHANGED <<tables, limiter, inflight, now, ticks, issued>>

SaveTokens == saveTokens
Send == \E r \in RequestIds, url \in Urls : send(r, url)
Respond == \E r \in RequestIds, status \in {200, 401} : respond(r, status)
RefreshServe == \E r \in RequestIds : refreshServe(r)
RefreshContinue == \E r \in RequestIds : refreshContinue(r)

\* ---------------------------------------------------------------------- time
\* The clock moves by a second, or by the lifetime of one of the credentials.
TickSteps == {1, accessTokenTTL, gatewayTokenTTL, refreshTokenTTL}

Tick ==
    /\ ticks < MaxTicks
    /\ \E d \in TickSteps : now' = now + d
    /\ ticks' = ticks + 1
    /\ last' = [op |-> "tick"]
    /\ UNCHANGED <<tables, limiter, browser, inflight, issued>>

Next ==
    \/ RegisterWithEmail
    \/ LoginWithEmail
    \/ RefreshAccessToken
    \/ ValidateAccessToken
    \/ Logout
    \/ LogoutAll
    \/ RequestPasswordReset
    \/ ResetPassword
    \/ Tick

Spec == Init /\ [][Next]_vars

\* The gateway-token broker, with the session operations that decide whether
\* an access token is still good.
NextGateway ==
    \/ RegisterWithEmail
    \/ Logout
    \/ ExchangeForGatewayToken
    \/ ValidateGatewayToken
    \/ RevokeGatewayToken
    \/ RevokeUserGatewayTokens
    \/ Tick

SpecGateway == Init /\ [][NextGateway]_vars

\* The gateway's connect check over the tokens the broker has stored.
NextConnect ==
    \/ RegisterWithEmail
    \/ ExchangeForGatewayToken
    \/ RevokeGatewayToken
    \/ AuthorizeGatewayConnect
    \/ Tick

SpecConnect == Init /\ [][NextConnect]_vars


\* Password registration over a store and a mailer that can fail.
NextRegister ==
    \/ RegisterWithEmailUnder
    \/ LoginWithEmail
    \/ Tick

SpecRegister == Init /\ [][NextRegister]_vars

\* Identity resolution: password and federated registration side by side.
NextOAuth ==
    \/ RegisterWithEmail
    \/ RegisterWithOAuth
    \/ Tick

SpecOAuth == Init /\ [][NextOAuth]_vars

\* Password login against accounts of every kind: with a password, federated
\* only, suspended.
NextLogin ==
    \/ RegisterWithEmail
    \/ RegisterWithOAuth
    \/ LoginWithEmail
    \/ SuspendUser
    \/ Tick

SpecLogin == Init /\ [][NextLogin]_vars

\* One-time tokens: issued by registration and by a reset request, consumed
\* by verifyEmail and resetPassword, outlived by the clock.
NextOneTime ==
    \/ RegisterWithEmail
    \/ VerifyEmail
    \/ RequestPasswordReset
    \/ ResetPassword
    \/ Tick

SpecOneTime == Init /\ [][NextOneTime]_vars

\* The token service on its own, under every pair of secrets.
NextTokens ==
    \/ TokenRoundTrip
    \/ Tick

SpecTokens == Init /\ [][NextTokens]_vars

\* The rate limiter with a cache that answers: callers' checks interleave
\* command by command.
NextRateLimit ==
    \/ CheckBegin
    \/ CheckEnd
    \/ Tick

SpecRateLimit == Init /\ [][NextRateLimit]_vars

\* The rate limiter configured or not, with a cache whose commands can fail.
NextRateLimitUnder ==
    \/ CheckBeginUnder
    \/ CheckEndUnder
    \/ Tick

SpecRateLimitUnder == InitLimiter /\ [][NextRateLimitUnder]_vars

\* Login and gateway-token exchange over an audit_log whose insert can fail.
NextAudit ==
    \/ RegisterWithEmail
    \/ LoginWithEmailUnder
    \/ ExchangeForGatewayTokenUnder
    \/ Tick

SpecAudit == Init /\ [][NextAudit]_vars

\* One-time tokens consumed by requests that the server handles at once.
NextConsume ==
    \/ RegisterWithEmail
    \/ RequestPasswordReset
    \/ ResetPasswordSelect
    \/ ResetPasswordUpdateUser
    \/ ResetPasswordMarkUsed
    \/ ResetPasswordLogoutAll
    \/ VerifyEmailSelect
    \/ VerifyEmailUpdateUser
    \/ VerifyEmailMarkUsed
    \/ Tick

SpecConsume == Init /\ [][NextConsume]_vars

\* Refresh requests that the server handles at once.
NextRefresh ==
    \/ RegisterWithEmail
    \/ RefreshSelect
    \/ RefreshUpdate
    \/ Tick

SpecRefresh == Init /\ [][NextRefresh]_vars

\* Password registrations that the server handles at once.
NextRegisterRace ==
    \/ RegisterCheck
    \/ RegisterInsertTenant
    \/ RegisterInsertUser
    \/ RegisterCommit
    \/ RegisterCreateSession
    \/ Tick

SpecRegisterRace == Init /\ [][NextRegisterRace]_vars

\* Federated sign-ins that the server handles at once.
NextOAuthRace ==
    \/ OAuthCheck
    \/ OAuthInsertUser
    \/ OAuthInsertLink
    \/ OAuthCommit
    \/ OAuthCreateSession
    \/ Tick

SpecOAuthRace == Init /\ [][NextOAuthRace]_vars

\* The logins and the refresh against federated accounts an operator may
\* have suspended.
NextStatus ==
    \/ RegisterWithOAuth
    \/ LoginWithEmail
    \/ RefreshAccessToken
    \/ SuspendUser
    \/ Tick

SpecStatus == Init /\ [][NextStatus]_vars

\* Gateway tokens next to the operations that end all of a user's sessions.
NextGatewayLogout ==
    \/ RegisterWithEmail
    \/ ExchangeForGatewayToken
    \/ ValidateGatewayToken
    \/ LogoutAll
    \/ RequestPasswordReset
    \/ ResetPassword
    \/ Tick

SpecGatewayLogout == Init /\ [][NextGatewayLogout]_vars

\* The browser of one user against the service: the sign-up, calls that are
\* answered 200 or 401, the interceptor's refreshes, and a logoutAll from
\* elsewhere.
NextClient ==
    \/ (users = <<>> /\ RegisterWithEmail)
    \/ SaveTokens
    \/ Send
    \/ Respond
    \/ RefreshServe
    \/ RefreshContinue
    \/ LogoutAll
    \/ Tick

SpecClient == Init /\ [][NextClient]_vars

\* ===================================================================== claims

\* A session row that has been revoked: logout, logoutAll and resetPassword
\* all stamp revoked_at.
IsRevoked(s) == s.revoked_at # NULL

\* C1: once a session has been revoked (logout, logoutAll, successful
\* resetPassword), validateAccessToken rejects that session's access token in
\* the state right after the revocation and in every later state, whether or
\* not the token's signature still verifies and its exp is still ahead: a
\* revoked row stays revoked with the same token hash, no presentable token
\* with that hash validates, and a validateAccessToken call on one fails.
C1_RevokedTokenNeverValidates ==
    /\ [](\A s \in Rows(user_sessions) : IsRevoked(s) =>
            /\ \A t \in PresentableTokens :
                  hashToken(t) = s.access_token_hash => ValidateOutcome(t) # "ok"
            /\ (/\ last.op = "validateAccessToken"
                /\ hashToken(last.token) = s.access_token_hash) => ~last.ok)
    /\ [][\A i \in 1..Len(user_sessions) : IsRevoked(user_sessions[i]) =>
            /\ i <= Len(user_sessions')
            /\ IsRevoked(user_sessions'[i])
            /\ user_sessions'[i].access_token_hash = user_sessions[i].access_token_hash]_vars

\* C1 witness: validateAccessToken has just rejected, for want of a session,
\* a token whose signature verifies and whose exp and stored expiry are still
\* ahead, the session holding its hash having been revoked.
C1_Witness ==
    /\ last.op = "validateAccessToken"
    /\ ~last.ok
    /\ last.error = "Session not found or expired"
    /\ last.token.sig = ACCESS_TOKEN_SECRET
    /\ now < last.token.payload.exp
    /\ \E s \in Rows(user_sessions) :
          /\ s.access_token_hash = hashToken(last.token)
          /\ IsRevoked(s)
          /\ s.access_token_expires_at > now

\* C2: validateAccessToken(t) returns a user exactly when t carries the access
\* secret's signature, an exp ahead of the clock and type "access", and some
\* session row holds hash(t), is active and has access_token_expires_at ahead
\* of the clock; the user returned is that session's.
C2_ValidateIffJwtAndLiveSession ==
    last.op = "validateAccessToken" =>
        /\ last.ok <=>
              /\ last.token.sig = ACCESS_TOKEN_SECRET
              /\ now < last.token.payload.exp
              /\ last.token.payload.type = "access"
              /\ \E s \in Rows(user_sessions) :
                    /\ s.access_token_hash = hashToken(last.token)
                    /\ s.is_active
                    /\ s.access_token_expires_at > now
        /\ last.ok => \E s \in Rows(user_sessions) :
                         /\ s.access_token_hash = hashToken(last.token)
                         /\ s.user_id = last.user_id

\* C2 witness: a validation that returned a user while another session of the
\* store was revoked.
C2_Witness ==
    /\ last.op = "validateAccessToken"
    /\ last.ok
    /\ \E s \in Rows(user_sessions) : ~s.is_active


\* C3: after refreshAccessToken(r) succeeds, no active session holds the hash
\* of r (so a later refreshAccessToken(r) cannot find a session).
C3_OldRefreshHashGone ==
    (last.op = "refreshAccessToken" /\ last.ok) =>
        \A s \in Rows(user_sessions) :
            s.is_active => s.refresh_token_hash # hashToken(last.token)

\* C4: after refreshAccessToken succeeds, an active session holds the hashes
\* of the returned pair, and the returned access token passes
\* validateAccessToken.
C4_ReturnedPairIsStored ==
    (last.op = "refreshAccessToken" /\ last.ok) =>
        /\ \E s \in Rows(user_sessions) :
              /\ s.is_active
              /\ s.access_token_hash = hashToken(last.tokens.accessToken)
              /\ s.refresh_token_hash = hashToken(last.tokens.refreshToken)
        /\ ValidateOutcome(last.tokens.accessToken) = "ok"

\* The hybrid check of validateAccessToken passes for a token now.
PassesHybridCheck(accessToken) == ValidateOutcome(accessToken) = "ok"

\* C5: exchangeForGatewayToken issues a gateway token only for an access
\* token that passes the hybrid check at the time of the call; for an expired
\* token or one whose session is revoked it throws and stores no row.
C5_ExchangeRequiresLiveSession ==
    (last.op = "exchangeForGatewayToken" /\ last.ok) => PassesHybridCheck(last.token)

\* C6: a successful exchangeForGatewayToken returns a value of 64 lower-case
\* hex digits and an expiresAt one hour after the call, and stores exactly one
\* row with that value, bound to the user and tenant of the access token and
\* expiring at expiresAt; and for every stored row that is unexpired and not
\* revoked, validateGatewayToken on its value returns that row's user id and
\* tenant id.
C6_ExchangeBindsAndValidates ==
    /\ (last.op = "exchangeForGatewayToken" /\ last.ok) =>
          /\ last.gatewayToken.len = 64
          /\ last.gatewayToken.cs = "lowerhex"
          /\ last.expiresAt = now + 60 * 60
          /\ Cardinality({ i \in 1..Len(gateway_tokens) :
                             gateway_tokens[i].token = last.gatewayToken }) = 1
          /\ \A g \in Rows(gateway_tokens) : g.token = last.gatewayToken =>
                /\ g.user_id = last.token.payload.sub
                /\ g.tenant_id = last.token.payload.tenant_id
                /\ g.tenant_id = UserById(g.user_id).tenant_id
                /\ g.expires_at = last.expiresAt
                /\ g.revoked_at = NULL
    /\ \A g \in Rows(gateway_tokens) :
          (now < g.expires_at /\ g.revoked_at = NULL) =>
              \E r \in validateGatewayTokenResult(g.token) :
                  r.userId = g.user_id /\ r.tenantId = g.tenant_id
    /\ last.op = "validateGatewayToken" =>
          \A g \in Rows(gateway_tokens) :
              (g.token = last.value /\ now < g.expires_at /\ g.revoked_at = NULL) =>
                  \E r \in last.result :
                      r.userId = g.user_id /\ r.tenantId = g.tenant_id

\* C6 witness: some time after an exchange, validateGatewayToken has returned
\* the owner of a stored token while a second user exists.
C6_Witness ==
    /\ last.op = "validateGatewayToken"
    /\ last.result # NULL
    /\ now > 0
    /\ Len(users) = 2
    /\ \E g \in Rows(gateway_tokens) : g.token = last.value /\ g.expires_at < now + 60 * 60

\* C7: validateGatewayToken(v) returns a result exactly when a gateway_tokens
\* row with token v has expires_at ahead of the clock and revoked_at NULL; an
\* expired or a revoked token yields null.
C7_GatewayValidIffUnexpiredUnrevoked ==
    /\ last.op = "validateGatewayToken" =>
          (last.result # NULL <=>
              \E g \in Rows(gateway_tokens) :
                  /\ g.token = last.value
                  /\ g.expires_at > now
                  /\ g.revoked_at = NULL)
    /\ \A g \in Rows(gateway_tokens) :
          (g.expires_at <= now \/ g.revoked_at # NULL) =>
              validateGatewayTokenResult(g.token) = NULL

\* C7 witness: validateGatewayToken has returned null for a stored token that
\* is revoked but not yet expired.
C7_Witness ==
    /\ last.op = "validateGatewayToken"
    /\ last.result = NULL
    /\ \E g \in Rows(gateway_tokens) :
          /\ g.token = last.value
          /\ g.revoked_at # NULL
          /\ g.expires_at > now

\* A gateway_tokens row makes `value` a good dynamic token now.
StoredAndLive(value) ==
    \E g \in Rows(gateway_tokens) :
        g.token = value /\ g.expires_at > now /\ g.revoked_at = NULL

\* C8: in token mode authorizeGatewayConnect accepts only if the dynamic
\* lookup of the presented value succeeded (the lookup ran and the value is
\* stored, unexpired and unrevoked) or the value equals the configured static
\* secret; with the lookup unavailable every value other than the static
\* secret is rejected.
C8_AcceptOnlyDynamicOrStatic ==
    (last.op = "authorizeGatewayConnect" /\ last.auth.mode = "token") =>
        /\ last.result.ok =>
              \/ last.lookup = "ok" /\ StoredAndLive(last.value)
              \/ last.value = last.auth.token /\ last.auth.token.len > 0
        /\ (last.lookup = "throws" /\ last.value # last.auth.token) => ~last.result.ok

\* C8 witness: with the lookup unavailable, a stored, live gateway token has
\* been rejected.
C8_Witness ==
    /\ last.op = "authorizeGatewayConnect"
    /\ last.auth.mode = "token"
    /\ last.lookup = "throws"
    /\ StoredAndLive(last.value)
    /\ ~last.result.ok

\* C9: with the dynamic lookup unavailable and a static token configured, a
\* connect presenting that token is accepted and a connect presenting any
\* other non-empty value, 64 hex digits or not, is rejected with
\* token_mismatch.
C9_StaticFallback ==
    (/\ last.op = "authorizeGatewayConnect"
     /\ last.auth.mode = "token"
     /\ last.auth.token.len > 0
     /\ last.value.len > 0
     /\ last.lookup = "throws") =>
        /\ last.value = last.auth.token =>
              last.result = [ok |-> TRUE, method |-> "token", user |-> NULL]
        /\ last.value # last.auth.token =>
              last.result = [ok |-> FALSE, reason |-> "token_mismatch"]

\* C9 witness: with the lookup unavailable, a wrong value that has the shape
\* of a gateway token has been rejected with token_mismatch.
C9_Witness ==
    /\ last.op = "authorizeGatewayConnect"
    /\ last.lookup = "throws"
    /\ last.value.len = 64
    /\ last.value.cs = "lowerhex"
    /\ last.value # last.auth.token
    /\ last.result = [ok |-> FALSE, reason |-> "token_mismatch"]

ThreeRowsAdded ==
    /\ Len(tenants') = Len(tenants) + 1
    /\ Len(users') = Len(users) + 1
    /\ Len(email_verification_tokens') = Len(email_verification_tokens) + 1
    /\ SubSeq(tenants', 1, Len(tenants)) = tenants
    /\ SubSeq(users', 1, Len(users)) = users
    /\ SubSeq(email_verification_tokens', 1, Len(email_verification_tokens)) =
           email_verification_tokens
    /\ users'[Len(users')].tenant_id = tenants'[Len(tenants')].id
    /\ email_verification_tokens'[Len(email_verification_tokens')].user_id =
           users'[Len(users')].id

\* The step leaves the three tables as they were.
NoRowAdded ==
    /\ tenants' = tenants
    /\ users' = users
    /\ email_verification_tokens' = email_verification_tokens

\* COMMIT is among the statements and returned: what follows it is not the
\* catch block's ROLLBACK.
CommitReturned(statements) ==
    \E i \in 1..(Len(statements) - 1) :
        statements[i] = "COMMIT" /\ statements[i + 1] # "ROLLBACK"

\* C11 (as stated): registerWithEmail is all-or-nothing over its three
\* inserts: a call that fails, at whatever step, leaves none of the tenant,
\* user and verification-token rows of the attempt, and a call that returns
\* leaves all three.
C11_FailedCallLeavesNoRow ==
    [][last'.op = "registerWithEmail" =>
          /\ ~last'.ok => NoRowAdded
          /\ last'.ok => ThreeRowsAdded]_vars

\* C11 (amended): a registerWithEmail call that fails before its COMMIT has
\* returned (a rejected input, or a throw of BEGIN, of one of the three
\* inserts or of COMMIT) leaves none of the three rows; a call whose COMMIT
\* has returned leaves all three, whether it then returns or fails in
\* createSession; in particular a call that returns leaves all three.
C11_AllOrNothingUpToCommit ==
    [][last'.op = "registerWithEmail" =>
          /\ (~last'.ok /\ ~CommitReturned(last'.statements)) => NoRowAdded
          /\ CommitReturned(last'.statements) => ThreeRowsAdded
          /\ last'.ok => (CommitReturned(last'.statements) /\ ThreeRowsAdded)]_vars

\* C11 witness: a call has failed on the verification-token insert, after the
\* tenant and user inserts of the same transaction, and the tables hold the
\* rows of one earlier registration only.
C11_Witness ==
    /\ last.op = "registerWithEmail"
    /\ ~last.ok
    /\ last.statements = <<"BEGIN", "INSERT tenants", "INSERT users",
                           "INSERT email_verification_tokens", "ROLLBACK">>
    /\ Len(tenants) = 1
    /\ Len(users) = 1
    /\ Len(email_verification_tokens) = 1

\* C12: in every registerWithEmail call the verification email is requested
\* and the session is created only after COMMIT; and when the email send
\* fails, the three committed rows are there and the call fails only if
\* createSession threw.
C12_MailAndSessionAfterCommit ==
    /\ [](last.op = "registerWithEmail" =>
            \A i \in 1..Len(last.statements) :
                last.statements[i] \in {"sendVerificationEmail", "createSession"} =>
                    \E j \in 1..(i - 1) : last.statements[j] = "COMMIT")
    /\ [][(last'.op = "registerWithEmail" /\ last'.mail = "fails") =>
            /\ ThreeRowsAdded
            /\ last'.ok <=> last'.statements = RegisterStatements
            /\ ~last'.ok =>
                  SubSeq(last'.statements, Len(last'.statements) - 1,
                         Len(last'.statements)) = <<"createSession", "ROLLBACK">>]_vars

\* C12 witness: a registration has returned its user and tokens although the
\* verification email could not be sent; user, token and session are stored.
C12_Witness ==
    /\ last.op = "registerWithEmail"
    /\ last.ok
    /\ last.mail = "fails"
    /\ \E u \in Rows(users) : u.id = last.user.id
    /\ \E v \in Rows(email_verification_tokens) : v.user_id = last.user.id
    /\ \E x \in Rows(user_sessions) :
          x.access_token_hash = hashToken(last.tokens.accessToken)

\* ------------------------------------------------------ email identity (C13)
\* Two emails are equal ignoring letter case.
SameIgnoringCase(e1, e2) == e1.name = e2.name

\* C13: at all times no two user rows have emails that are equal ignoring
\* letter case, whichever registration created them; and a step that adds
\* user rows adds none whose email equals, ignoring case, that of a user that
\* was there before.
C13_EmailsUniqueIgnoringCase ==
    /\ [](\A i, j \in 1..Len(users) :
             i # j => ~SameIgnoringCase(users[i].email, users[j].email))
    /\ [][\A i \in 1..Len(users), j \in (Len(users) + 1)..Len(users') :
             ~SameIgnoringCase(users'[j].email, users[i].email)]_vars

\* C13 witness: a federated registration asserting A@X.IO in capitals has been
\* resolved to the user registered with a password as a@x.io, and the store
\* still holds that one user.
C13_Witness ==
    /\ last.op = "registerWithOAuth"
    /\ last.providerEmail = Some(Email("a@x.io", TRUE, TRUE))
    /\ last.branch = "link"
    /\ last.user.password_hash # NULL
    /\ last.user.email = Email("a@x.io", FALSE, TRUE)
    /\ Len(users) = 1
    /\ Len(user_oauth_providers) = 1

LoginRejected ==
    /\ last.op = "loginWithEmail"
    /\ ~last.ok
    /\ last.error # "duplicate key"

\* C15: every loginWithEmail that a check rejects surfaces the message
\* "Invalid email or password" to the caller, whichever check it was.
C15_UniformLoginFailure ==
    LoginRejected =>
        last.response = [status |-> 401, error |-> "Invalid email or password"]

\* C16: every loginWithEmail that a check rejects has written an audit entry
\* with action user.login_failed and one of the reasons user_not_found,
\* account_suspended and invalid_password.
C16_FailedLoginAudited ==
    LoginRejected =>
        \E a \in last.audit :
            /\ a.action = "user.login_failed"
            /\ a.reason \in {Some("user_not_found"), Some("account_suspended"),
                             Some("invalid_password")}

C19_LinkOnlyVerifiedEmail ==
    (last.op = "registerWithOAuth" /\ last.branch = "link") => last.emailVerified

\* C20: a user created by registerWithOAuth has email_verified = true exactly
\* when the provider asserts the email as verified.
C20_VerifiedAsProviderAsserts ==
    (last.op = "registerWithOAuth" /\ last.branch = "create") =>
        \A u \in Rows(users) :
            u.id = last.user.id => (u.email_verified <=> last.emailVerified)

\* C21: when resetPassword has succeeded, every session row of the token's
\* user is inactive, every token handed out for that user so far fails the
\* lookup of validateAccessToken and the lookup of refreshAccessToken, and
\* this lasts: a revoked row keeps its hashes and stays inactive, and no
\* token hashing to a revoked row passes either lookup in any later state.
C21_ResetRevokesEverySession ==
    /\ []((last.op = "resetPassword" /\ last.ok) =>
            /\ \A s \in Rows(user_sessions) :
                  s.user_id = last.user_id => ~s.is_active /\ IsRevoked(s)
            /\ \A t \in issued : t.payload.sub = last.user_id =>
                  /\ ValidateOutcome(t) # "ok"
                  /\ RefreshRows(t) = {})
    /\ [](\A s \in Rows(user_sessions) : IsRevoked(s) =>
            \A t \in PresentableTokens :
                /\ hashToken(t) = s.access_token_hash => AccessRows(t) = {}
                /\ hashToken(t) = s.refresh_token_hash => RefreshRows(t) = {})
    /\ [][\A i \in 1..Len(user_sessions) : IsRevoked(user_sessions[i]) =>
            /\ i <= Len(user_sessions')
            /\ ~user_sessions'[i].is_active
            /\ user_sessions'[i].access_token_hash = user_sessions[i].access_token_hash
            /\ user_sessions'[i].refresh_token_hash = user_sessions[i].refresh_token_hash]_vars

\* C21 witness: resetPassword has just succeeded for a user holding a session
\* whose stored expiries are ahead and whose access and refresh tokens still
\* verify as JWTs; the row is now revoked with reason logout_all.
C21_Witness ==
    /\ last.op = "resetPassword"
    /\ last.ok
    /\ \E s \in Rows(user_sessions) :
          /\ s.user_id = last.user_id
          /\ s.revoked_reason = Some("logout_all")
          /\ s.access_token_expires_at > now
          /\ s.refresh_token_expires_at > now
          /\ \E a, r \in issued :
                /\ hashToken(a) = s.access_token_hash
                /\ verifyAccessToken(a, now)
                /\ hashToken(r) = s.refresh_token_hash
                /\ verifyRefreshToken(r, now)

\* The row of a one-time token table holding a token, if any.
TokenRows(table, token) == { r \in Rows(table) : r.token = token }

\* C22: verifyEmail and resetPassword succeed only on a token whose row was
\* unused and unexpired when the call began, and a success stamps that row's
\* used_at; a call presenting a token whose row is used or expired (or is
\* missing) is rejected and changes no row; and a row whose used_at is set
\* keeps that used_at in every later state.
C22_OneTimeTokensSingleUse ==
    /\ [][(last'.op = "verifyEmail" /\ last' # last) =>
            LET before == TokenRows(email_verification_tokens, last'.token)
                after == TokenRows(email_verification_tokens', last'.token)
            IN  IF \E r \in before : r.used_at = NULL /\ r.expires_at > now
                THEN /\ last'.ok
                     /\ \A r \in after : r.used_at = Some(now)
                ELSE /\ ~last'.ok
                     /\ UNCHANGED tables]_vars
    /\ [][(last'.op = "resetPassword" /\ last' # last) =>
            LET before == TokenRows(password_reset_tokens, last'.token)
                after == TokenRows(password_reset_tokens', last'.token)
            IN  IF \E r \in before : r.used_at = NULL /\ r.expires_at > now
                THEN last'.ok => \A r \in after : r.used_at = Some(now)
                ELSE /\ ~last'.ok
                     /\ UNCHANGED tables]_vars
    /\ [][/\ \A i \in 1..Len(email_verification_tokens) :
              email_verification_tokens[i].used_at # NULL =>
                  /\ i <= Len(email_verification_tokens')
                  /\ email_verification_tokens'[i] = email_verification_tokens[i]
          /\ \A i \in 1..Len(password_reset_tokens) :
              password_reset_tokens[i].used_at # NULL =>
                  /\ i <= Len(password_reset_tokens')
                  /\ password_reset_tokens'[i] = password_reset_tokens[i]]_vars

\* C22 witness: a second resetPassword with a token that is still unexpired
\* has just been rejected because the first one consumed it, in a store
\* whose verification token has been consumed as well.
C22_Witness ==
    /\ last.op = "resetPassword"
    /\ ~last.ok
    /\ last.error = "Invalid or expired reset token"
    /\ \E r \in TokenRows(password_reset_tokens, last.token) :
          r.used_at # NULL /\ r.expires_at > now
    /\ \E v \in Rows(email_verification_tokens) : v.used_at # NULL

\* C23: logout and logoutAll are idempotent: a logout of a token whose
\* session rows an earlier logout has already revoked, and a logoutAll of a
\* user all of whose session rows an earlier logoutAll has already revoked,
\* leave every session row (is_active, revoked_at, revoked_reason) as it is.
C23_LogoutIdempotent ==
    [][/\ (/\ last'.op = "logout"
            /\ \A s \in Rows(user_sessions) :
                  s.access_token_hash = hashToken(last'.token) =>
                      s.revoked_reason = Some("user_logout"))
           => user_sessions' = user_sessions
       /\ (/\ last'.op = "logoutAll"
            /\ \A s \in Rows(user_sessions) :
                  s.user_id = last'.user_id =>
                      s.revoked_reason = Some("logout_all"))
           => user_sessions' = user_sessions]_vars

\* C24: revoked is terminal: a session row that is inactive is still there
\* and inactive after every step (refresh, login, validation, logout,
\* logoutAll, password reset, the clock), and a successful refreshAccessToken
\* leaves the active session it was called on active.
C24_RevokedIsTerminal ==
    /\ [][\A i \in 1..Len(user_sessions) : ~user_sessions[i].is_active =>
            /\ i <= Len(user_sessions')
            /\ user_sessions'[i].id = user_sessions[i].id
            /\ ~user_sessions'[i].is_active]_vars
    /\ [][(last'.op = "refreshAccessToken" /\ last'.ok /\ last' # last) =>
            \E i \in 1..Len(user_sessions) :
                /\ user_sessions[i].refresh_token_hash = hashToken(last'.token)
                /\ user_sessions[i].is_active
                /\ user_sessions'[i].id = user_sessions[i].id
                /\ user_sessions'[i].is_active]_vars

\* C24 witness: a refresh has just succeeded on an active session of a store
\* that also holds a revoked session, which a login has followed.
C24_Witness ==
    /\ last.op = "refreshAccessToken"
    /\ last.ok
    /\ \E i, j \in 1..Len(user_sessions) :
          /\ i < j
          /\ ~user_sessions[i].is_active
          /\ user_sessions[j].is_active
          /\ user_sessions[j].refresh_token_hash = hashToken(last.token)

\* The messages with which loginWithEmail turns a caller away before it
\* comes to createSession.
LoginRefusals ==
    {"Invalid email or password", "Account suspended",
     "Please login with OAuth provider", "2FA not yet implemented"}

\* C25: a user may hold several active sessions: a password login that
\* passes the credential checks, and a federated login of a linked identity,
\* made while sessions exist, returns a session, and every session row there
\* was is left as it was (active, with its own hashes).
C25_SeveralActiveSessions ==
    [][(/\ last' # last
        /\ \/ last'.op = "loginWithEmail" /\ last'.error \notin LoginRefusals
           \/ last'.op = "registerWithOAuth" /\ last'.branch = "login")
       => /\ last'.ok
          /\ Len(user_sessions') = Len(user_sessions) + 1
          /\ \A i \in 1..Len(user_sessions) : user_sessions'[i] = user_sessions[i]]_vars

\* C26: a verifier of one class returns null for every token minted for the
\* other class, under every pair of secrets, two equal ones included: the
\* type field alone rejects it.
C26_CrossClassRejected ==
    (last.op = "TokenService" /\ last.ok /\ last.minted # last.verifier) =>
        last.result = NULL

\* C26 witness: a service whose two secrets are equal has just returned null
\* from verifyAccessToken for a fresh refresh token it minted itself, whose
\* signature and exp pass jwt.verify under the access secret.
C26_Witness ==
    /\ last.op = "TokenService"
    /\ last.ok
    /\ last.svc.accessTokenSecret = last.svc.refreshTokenSecret
    /\ last.minted = "refresh"
    /\ last.verifier = "access"
    /\ jwtVerify(last.token, last.svc.accessTokenSecret, now)
    /\ last.result = NULL

\* C27: verifyAccessToken of a fresh access token of user u returns a payload
\* with sub = u.id, tenant_id = u.tenant_id, email = u.email, role = u.role
\* and type "access"; verifyRefreshToken of a fresh refresh token of u
\* returns a payload with sub = u.id and type "refresh" that has no email,
\* role or tenant_id field.
C27_PayloadRoundTrip ==
    (last.op = "TokenService" /\ last.ok /\ last.minted = last.verifier) =>
        /\ (last.minted = "access" /\ last.delay < accessTokenTTL) =>
              /\ last.result # NULL
              /\ \A p \in last.result :
                    /\ p.sub = last.user.id
                    /\ p.tenant_id = last.user.tenant_id
                    /\ p.email = last.user.email
                    /\ p.role = last.user.role
                    /\ p.type = "access"
        /\ (last.minted = "refresh" /\ last.delay < refreshTokenTTL) =>
              /\ last.result # NULL
              /\ \A p \in last.result :
                    /\ p.sub = last.user.id
                    /\ p.type = "refresh"
                    /\ DOMAIN p \cap {"email", "role", "tenant_id"} = {}

\* C27 witness: a refresh token has just come back from verifyRefreshToken
\* with a payload, for a user with a role and an email in capitals.
C27_Witness ==
    /\ last.op = "TokenService"
    /\ last.ok
    /\ last.minted = "refresh"
    /\ last.verifier = "refresh"
    /\ last.result # NULL
    /\ last.user.email.caps
    /\ last.user.role = "member"

\* C28: every rate-limit check returns true when the cache is unreachable
\* or a command to it fails: a check made without a cache client is allowed,
\* and no check ends by throwing (in the model a check throws exactly when
\* a command it sent was rejected).
C28_FailsOpen ==
    last.op = "checkRateLimit" =>
        /\ ~last.connected => last.result = "allowed"
        /\ last.result # "throws"

\* The limits as the documentation of the checks states them.
StatedLimit == [login |-> 5, register |-> 3, passwordReset |-> 3, emailVerify |-> 5]
StatedWindow ==
    [login |-> 15 * 60, register |-> 60 * 60, passwordReset |-> 60 * 60,
     emailVerify |-> 60 * 60]

\* C29: within a window a check allows exactly the first N calls for an
\* identifier, also when callers interleave: every call's INCR is counted by
\* itself (the n-th INCR on a key that is there returns n, the first on a
\* key that is not there returns 1, and no other key changes), and a call
\* is allowed exactly when the number its INCR returned is at most N (5 for
\* login, 3 for register and passwordReset, 5 for emailVerify).
C29_FirstNAllowed ==
    /\ [](last.op = "checkRateLimit" =>
            (last.result = "allowed" <=> last.current <= StatedLimit[last.kind])
            /\ last.result # "throws")
    /\ [][\A c \in Clients :
            (checks[c].pc = "idle" /\ checks'[c].pc = "incremented") =>
                LET key == RateKey(checks'[c].kind, checks'[c].id)
                    counted == IF KeyLive(Cache, key) THEN Cache[key].count + 1 ELSE 1
                IN  /\ checks'[c].current = counted
                    /\ \A e \in redis' : /\ e[key].count = counted
                                          /\ \A k \in RateKeys \ {key} : e[k] = Cache[k]
                    /\ \A d \in Clients \ {c} : checks'[d] = checks[d]]_vars

\* C29 witness: the sixth login check for an identifier has just been denied
\* while the caller that was counted fifth is still between its INCR and its
\* return.
C29_Witness ==
    /\ last.op = "checkRateLimit"
    /\ last.kind = "login"
    /\ last.current = 6
    /\ last.result = "denied"
    /\ \E c \in Clients :
          /\ checks[c].pc = "incremented"
          /\ checks[c].kind = "login"
          /\ checks[c].id = last.id
          /\ checks[c].current = 5

\* C30: every counter key carries a TTL of its window, set with the first
\* increment: a key that is there, unless the check that made it is still
\* between its INCR and its EXPIRE, has an expiry no further ahead than its
\* window (so that an identifier that is denied is counted from 1 again once
\* the window has passed).
C30_EveryKeyExpires ==
    \A kind \in RateKinds, identifier \in RateIdentifiers :
        \A cache \in redis :
            LET key == RateKey(kind, identifier)
            IN  KeyLive(cache, key) =>
                    \/ \E c \in Clients :
                          /\ checks[c].pc = "incremented"
                          /\ checks[c].kind = kind
                          /\ checks[c].id = identifier
                          /\ checks[c].current = 1
                    \/ /\ cache[key].expire_at # NULL
                       /\ \A e \in cache[key].expire_at : e <= now + StatedWindow[kind]

\* C31: AuditLogger.log never throws: whether or not the audit_log insert
\* fails, loginWithEmail and exchangeForGatewayToken return what their own
\* checks decide and change the store as those decide; a failed insert only
\* leaves the audit row unwritten.
C31_AuditFailureSwallowed ==
    /\ [][(last'.op = "loginWithEmail" /\ last' # last) =>
            LET outcome == LoginOutcome(last'.email, last'.password)
                user == CHOOSE u \in UsersByEmail(toLowerCase(last'.email)) : TRUE
            IN  /\ last'.ok = (outcome = "ok")
                /\ last'.error = IF outcome = "ok" THEN "" ELSE outcome
                /\ user_sessions' = IF outcome = "ok"
                                    THEN Append(user_sessions, SessionRow(user))
                                    ELSE user_sessions
                /\ last'.ok => SessionTokens(user).accessToken \in issued'
                /\ last'.insert = "fails" => last'.audit = {}]_vars
    /\ [][(last'.op = "exchangeForGatewayToken" /\ last' # last) =>
            LET outcome == ExchangeOutcome(last'.token, last'.gatewayToken)
            IN  /\ last'.ok = (outcome = "ok")
                /\ last'.error = IF outcome = "ok" THEN "" ELSE outcome
                /\ Len(gateway_tokens') =
                       Len(gateway_tokens) + (IF outcome = "ok" THEN 1 ELSE 0)
                /\ last'.insert = "fails" => last'.audit = {}]_vars

\* C31 witness: an exchange has just returned a gateway token and stored its
\* row though its audit row could not be written, in a store to which a
\* login has added a second session.
C31_Witness ==
    /\ last.op = "exchangeForGatewayToken"
    /\ last.ok
    /\ last.insert = "fails"
    /\ last.audit = {}
    /\ \E g \in Rows(gateway_tokens) : g.token = last.gatewayToken
    /\ Len(user_sessions) = 2

\* C32: a user has at most one link per provider: no two rows of
\* user_oauth_providers have the same user_id and the same provider.
C32_OneLinkPerProvider ==
    \A i, j \in 1..Len(user_oauth_providers) :
        (/\ i # j
         /\ user_oauth_providers[i].user_id = user_oauth_providers[j].user_id)
        => user_oauth_providers[i].provider # user_oauth_providers[j].provider

\* Two requests of one operation on one key that overlapped and both
\* succeeded.
BothSucceeded(op) ==
    \E c, d \in Clients :
        /\ c # d
        /\ inflight[c].pc = "done" /\ inflight[d].pc = "done"
        /\ inflight[c].op = op /\ inflight[d].op = op
        /\ inflight[c].key = inflight[d].key
        /\ d \in inflight[c].peers
        /\ inflight[c].ok /\ inflight[d].ok

\* C33: of two resetPassword requests, or two verifyEmail requests, that
\* present the same token and are handled at once, at most one succeeds.
C33_OneConsumerWins ==
    ~BothSucceeded("resetPassword") /\ ~BothSucceeded("verifyEmail")

\* C34: of two refreshAccessToken requests that present the same refresh
\* token and are handled at once, at most one succeeds.
C34_OneRefreshWins == ~BothSucceeded("refreshAccessToken")

\* C35: of the registerWithEmail requests handled at once for one email, in
\* any letter case, at most one creates a user: no two users share an email,
\* no two overlapping requests for the email both succeed, and a request
\* that lost leaves neither its tenant row nor a verification token behind
\* (every tenant has its user and every token its user, one of each per user).
C35_OneRegistrationWins ==
    /\ \A i, j \in 1..Len(users) : i # j => users[i].email # users[j].email
    /\ ~BothSucceeded("registerWithEmail")
    /\ \A t \in Rows(tenants) :
          Cardinality({ u \in Rows(users) : u.tenant_id = t.id }) = 1
    /\ \A v \in Rows(email_verification_tokens) :
          \E u \in Rows(users) : u.id = v.user_id
    /\ Len(tenants) = Len(users)
    /\ Len(email_verification_tokens) = Len(users)

\* A request that had inserted its tenant lost the INSERT of the user to a
\* request it overlapped with, and rolled back.
C35_Witness ==
    /\ last.op = "registerWithEmail.insertUser"
    /\ last.error = "duplicate key"
    /\ last.peers # {}
    /\ "INSERT tenants" \in last.rolledBack
    /\ Len(users) = 1
    /\ users[1].email = last.key

\* C36: of the registerWithOAuth requests handled at once for one unlinked
\* (provider, subject), at most one leaves anything: no two links carry the
\* pair, no two overlapping requests for it both succeed, every user has a
\* link and every tenant exactly one user, so one link, one user and one
\* tenant at most come of the pair and no tenant is left without a user.
C36_OneOAuthRegistrationWins ==
    /\ \A i, j \in 1..Len(user_oauth_providers) :
          (/\ i # j
           /\ user_oauth_providers[i].provider = user_oauth_providers[j].provider)
          => user_oauth_providers[i].provider_user_id
                 # user_oauth_providers[j].provider_user_id
    /\ ~BothSucceeded("registerWithOAuth")
    /\ \A u \in Rows(users) :
          \E l \in Rows(user_oauth_providers) : l.user_id = u.id
    /\ \A t \in Rows(tenants) :
          Cardinality({ u \in Rows(users) : u.tenant_id = t.id }) = 1
    /\ Len(tenants) = Len(users)

\* A request that had inserted a tenant and a user lost the INSERT of the
\* link to a request it overlapped with, and rolled back: one tenant, one
\* user and one link are stored.
C36_Witness ==
    /\ last.op = "registerWithOAuth.insertLink"
    /\ last.error = "duplicate key"
    /\ last.peers # {}
    /\ last.rolledBack = {"INSERT tenants", "INSERT users"}
    /\ Len(tenants) = 1 /\ Len(users) = 1 /\ Len(user_oauth_providers) = 1

\* C37: no operation mints a session or a token pair for a user whose
\* status is not active: a password login, a federated login and a refresh
\* that have just succeeded were for a user who is active.
C37_InactiveUserRefused ==
    /\ (last.op \in {"loginWithEmail", "registerWithOAuth"} /\ last.ok)
          => UserById(last.user.id).status = "active"
    /\ (last.op = "refreshAccessToken" /\ last.ok)
          => UserById(last.tokens.refreshToken.payload.sub).status = "active"

\* C38: once logoutAll, or a resetPassword that succeeded, has run for a
\* user, validateGatewayToken accepts none of the gateway tokens issued to
\* that user before.
C38_GatewayTokensEndWithSessions ==
    (\/ last.op = "logoutAll"
     \/ last.op = "resetPassword" /\ last.ok)
    => \A g \in Rows(gateway_tokens) :
          g.user_id = last.user_id => validateGatewayTokenResult(g.token) = NULL

\* C39: for one request the response interceptor refreshes at most once and
\* replays at most once: a request whose replay was answered 401 is returned
\* to the caller with that error, after one refresh, and a request to the
\* login, register, check-user or oauth endpoints is never refreshed for.
C39_OneRefreshOneReplay ==
    \A r \in RequestIds :
        requests[r].pc # "idle" =>
            /\ requests[r].refreshes <= 1
            /\ requests[r].replays <= 1
            /\ requests[r].replays <= requests[r].refreshes
            /\ isAuthRequest(requests[r].url) =>
                   requests[r].refreshes = 0 /\ ~requests[r]._retry

\* A request was answered 401, refreshed for, replayed, answered 401 again
\* and returned to its caller; and a request to an auth endpoint was
\* answered 401 and returned.
C39_Witness ==
    /\ \E r \in RequestIds :
          /\ requests[r].pc = "returned"
          /\ requests[r].result = "401"
          /\ requests[r].refreshes = 1
          /\ requests[r].replays = 1
    /\ \E r \in RequestIds :
          /\ requests[r].pc = "returned"
          /\ requests[r].result = "401"
          /\ isAuthRequest(requests[r].url)

\* C40: when the refreshes of several requests that were answered 401 are
\* under way together and one of them succeeds, then, once they are over,
\* the browser holds a token pair and has not been sent to /login.
C40_RefreshedPairKept ==
    \A r, q \in RequestIds :
        (/\ requests[r].pc \in {"sent", "returned"}
         /\ requests[q].pc \in {"sent", "returned"}
         /\ q \in requests[r].overlap
         /\ requests[r].refresh = "ok"
         /\ requests[q].refresh \in {"ok", "failed"})
        => /\ location # "/login"
           /\ localStorage.accessToken # NULL
           /\ localStorage.refreshToken # NULL

====
